---- MODULE Spec2Model ----
(***************************************************************************)
(* Model of the hierarchical component registry and dispatch pipeline of   *)
(* disnake-ext-components (src/src/disnake/ext/components/impl/manager.py).*)
(*                                                                         *)
(* Strings are sequences of latin-1 code points, so that str.split,        *)
(* str.join and str.endswith are computed rather than assumed.  Manager    *)
(* names are sequences of their dot-separated segments ("a.b" is           *)
(* <<"a", "b">>), so that rsplit(".", 1) is the removal of the last        *)
(* segment.  Python dicts are functions whose DOMAIN is the key set.       *)
(***************************************************************************)
EXTENDS Integers, Sequences, FiniteSets, TLC

(***************************************************************************)
(* Bounds of the model.                                                    *)
(***************************************************************************)
\* Number of module objects (generations) a module name may be bound to.
MaxGen == 2
\* Number of custom ids kept in flight (made by make_custom_id).
MaxIssued == 1
\* Number of counted make_custom_id calls per manager.
MaxMade == 2
\* Number of register, deregister and invoke calls in one run.
MaxCalls == 4
\* Number of config, as_callback_wrapper and as_exception_handler calls in
\* one run.
MaxSetups == 2
\* Number of make_custom_id calls logged in one run of the counter.
MaxLogged == 26
\* Number of make_custom_id coroutines suspended at the same time.
MaxPending == 2

(***************************************************************************)
(* Program constants.                                                      *)
(***************************************************************************)
\* manager.py:27  _ROOT = sys.intern("root")
ROOT == <<"root">>
\* manager.py:89  _DEFAULT_SEP = sys.intern("|")  (code point 124)
DEFAULT_SEP == <<124>>
\* manager.py:90  _DEFAULT_COUNT = True
DEFAULT_COUNT == TRUE
\* manager.py:334  the counter wraps to 0 once it exceeds 24
MaxCounter == 24

\* manager.py:77-83  count.to_bytes(1, "little").decode("latin-1")
minimise_count(count) == <<count>>

\* manager.py:86-88  tuple(map(_minimise_count, range(25)))
COUNT_CHARS == {minimise_count(i) : i \in 0..24}

(***************************************************************************)
(* The universe the inputs are drawn from.                                 *)
(***************************************************************************)
\* Manager names handed to get_manager: "root", "a", "a.b".
Names == {ROOT, <<"a">>, <<"a", "b">>}
\* Absence of a manager (None).
NoManager == <<>>

\* Class names (type.__name__): "A".
ClassNames == {<<65>>}
\* Explicit identifiers passed to register(identifier=...): "X".
ExplicitIdents == {<<88>>}
\* identifier=None
NoIdent == <<>>
\* Module names (type.__module__).
Modules == {"m1", "m2"}
\* Separators passed to config(sep=...): "|" and "#".
Seps == {<<124>>, <<35>>}
NoSep == <<>>
\* config() called without sep (the NotSet sentinel).
NotSetSep == <<0 - 1>>
\* Lists of dumped field strings of a component instance: no field, one
\* field "v", one empty field, one field "|" that contains the default
\* separator.
FieldLists == {<< >>, << <<118>> >>, << <<>> >>, << <<124>> >>}

\* A component class: its __name__, its __module__ and the id of the module
\* object that defined it.  Both modules define a class named A; only m1 is
\* ever reloaded.
Generations(m) == IF m = "m1" THEN MaxGen ELSE 1
Types == UNION {[name : ClassNames, module : {m}, id : 1..Generations(m)] :
                   m \in Modules}
NoType == [name |-> <<>>, module |-> "", id |-> 0]

(***************************************************************************)
(* State.                                                                  *)
(***************************************************************************)
VARIABLES
    store,          \* keys of _MANAGER_STORE
    children,       \* ComponentManager._children, per manager name
    components,     \* ComponentManager._components: identifier -> type
    identifiers,    \* ComponentManager._identifiers: class name -> identifier
    module_data,    \* ComponentManager._module_data: identifier -> _ModuleData
    cfg_sep,        \* ComponentManager._sep (NoSep is None)
    cfg_count,      \* ComponentManager._count ("None", "True", "False")
    counter,        \* ComponentManager._counter
    wrap_callback,  \* ComponentManager.wrap_callback (kind of wrapper)
    handle_exception, \* ComponentManager.handle_exception (kind of handler)
    type_manager,   \* component_type.manager class attribute
    sys_modules,    \* sys.modules: module name -> id of module object, 0 absent
    loaded,         \* number of module objects created so far per module name
    collected,      \* classes reclaimed by the garbage collector
    issued,         \* custom ids made by make_custom_id, with how they were made
    last,           \* the last API call and how it ended
    calls,          \* number of register, deregister and invoke calls so far
    setups,         \* number of config and as_..._wrapper/handler calls so far
    inv,            \* the invocation in progress (ComponentManager.invoke)
    call,           \* the library function being applied, with its arguments and result
    trace,          \* what the invocation in progress has done so far
    extra_events,   \* bot.extra_events: event name -> the managers whose invoke listens
    bot_calls       \* the add_to_bot and remove_from_bot calls so far and how they ended

\* The state of the managers, the modules and the invocation in progress.
managerVars == <<store, children, components, identifiers, module_data,
                 cfg_sep, cfg_count, counter, wrap_callback, handle_exception,
                 type_manager, sys_modules, loaded, collected, issued, last,
                 calls, setups, inv, trace, extra_events, bot_calls>>

vars == <<managerVars, call>>

\* The bot the managers are added to, and the calls that changed it.
botVars == <<extra_events, bot_calls>>

registryVars == <<components, identifiers, module_data, type_manager>>
configVars == <<cfg_sep, cfg_count>>
hookVars == <<wrap_callback, handle_exception>>
moduleVars == <<sys_modules, loaded, collected>>

(***************************************************************************)
(* Strings.                                                                *)
(***************************************************************************)
\* s.startswith(sep, i - 1): sep occurs in s at the 1-based position i.
OccursAt(s, sep, i) ==
    /\ i + Len(sep) - 1 <= Len(s)
    /\ SubSeq(s, i, i + Len(sep) - 1) = sep

\* s.find(sep) + 1: the first position at which sep occurs, 0 when none.
Find(s, sep) ==
    LET hits == {i \in 1..Len(s) : OccursAt(s, sep, i)}
    IN  IF hits = {} THEN 0 ELSE CHOOSE i \in hits : \A j \in hits : i <= j

\* str.split(sep) for a non-empty sep.
RECURSIVE Split(_, _)
Split(s, sep) ==
    LET i == Find(s, sep)
    IN  IF i = 0
        THEN <<s>>
        ELSE <<SubSeq(s, 1, i - 1)>> \o Split(SubSeq(s, i + Len(sep), Len(s)), sep)

\* sep.join(parts)
RECURSIVE Join(_, _)
Join(parts, sep) ==
    IF parts = <<>> THEN <<>>
    ELSE IF Len(parts) = 1 THEN parts[1]
    ELSE parts[1] \o sep \o Join(Tail(parts), sep)

\* name.endswith(_COUNT_CHARS)
EndsWithCountChar(name) ==
    /\ Len(name) >= 1
    /\ <<name[Len(name)]>> \in COUNT_CHARS

Range(seq) == {seq[i] : i \in 1..Len(seq)}

(***************************************************************************)
(* The manager hierarchy.                                                  *)
(***************************************************************************)
\* name.rsplit(".", 1)[0]
Prefix(name) == SubSeq(name, 1, Len(name) - 1)

\* ComponentManager.parent: the name of the manager the property returns.
Parent(name) ==
    IF Len(name) = 1
    THEN IF name = ROOT THEN NoManager ELSE ROOT
    ELSE Prefix(name)

\* _recurse_parents: the manager itself, then its parents up to the root.
RECURSIVE RecurseParents(_)
RecurseParents(name) ==
    IF name = NoManager THEN <<>>
    ELSE <<name>> \o RecurseParents(Parent(name))

\* get_manager(name): the keys of _MANAGER_STORE after the call.
RECURSIVE StoreAfterGet(_, _)
StoreAfterGet(S, name) ==
    IF name \in S THEN S
    ELSE IF Len(name) > 1 THEN StoreAfterGet(S \cup {name}, Prefix(name))
    ELSE S \cup {name}

\* get_manager(name): the _children sets after the call.
RECURSIVE ChildrenAfterGet(_, _, _)
ChildrenAfterGet(S, ch, name) ==
    IF name \in S THEN ch
    ELSE IF Len(name) > 1
         THEN LET below == ChildrenAfterGet(S \cup {name}, ch, Prefix(name))
              IN  [below EXCEPT ![Prefix(name)] = @ \cup {name}]
         ELSE ch

\* The keys of _MANAGER_STORE after _recurse_parents(name) ran to its end:
\* every parent is obtained through get_manager, which creates it if missing.
RECURSIVE StoreAfterWalk(_, _)
StoreAfterWalk(S, name) ==
    IF name = NoManager THEN S
    ELSE StoreAfterWalk(StoreAfterGet(S, name), Parent(name))

\* The _children sets after _recurse_parents(name) ran to its end.
RECURSIVE ChildrenAfterWalk(_, _, _)
ChildrenAfterWalk(S, ch, name) ==
    IF name = NoManager THEN ch
    ELSE ChildrenAfterWalk(StoreAfterGet(S, name),
                           ChildrenAfterGet(S, ch, name), Parent(name))

\* _recurse_parents_getattr(manager, "_sep", _DEFAULT_SEP)
RECURSIVE RecurseParentsGetSep(_, _)
RecurseParentsGetSep(cs, name) ==
    IF name = NoManager THEN DEFAULT_SEP
    ELSE IF cs[name] # NoSep THEN cs[name]
    ELSE RecurseParentsGetSep(cs, Parent(name))

\* _recurse_parents_getattr(manager, "_count", _DEFAULT_COUNT)
RECURSIVE RecurseParentsGetCount(_, _)
RecurseParentsGetCount(cc, name) ==
    IF name = NoManager THEN DEFAULT_COUNT
    ELSE IF cc[name] # "None" THEN cc[name] = "True"
    ELSE RecurseParentsGetCount(cc, Parent(name))

\* ComponentManager.sep and ComponentManager.count in the current state.
Sep(name) == RecurseParentsGetSep(cfg_sep, name)
Count(name) == RecurseParentsGetCount(cfg_count, name)

(***************************************************************************)
(* Custom ids.                                                             *)
(***************************************************************************)
\* ComponentManager.make_identifier
make_identifier(t) == t.name

\* ComponentManager.get_identifier with the manager's sep and count given.
GetIdentifierWith(sep, count, custom_id) ==
    LET parts == Split(custom_id, sep)
        name == Head(parts)
        params == Tail(parts)
    IN  IF count /\ EndsWithCountChar(name)
        THEN [name |-> SubSeq(name, 1, Len(name) - 1), params |-> params]
        ELSE [name |-> name, params |-> params]

\* ComponentManager.get_identifier
get_identifier(name, custom_id) ==
    GetIdentifierWith(Sep(name), Count(name), custom_id)

\* An increment that leaves _counter as it is.
IncrementCounterStuck(c) == c
\* ComponentManager.increment: the value of _counter after the call.
IncrementCounter(c) == IF c + 1 > MaxCounter THEN 0 ELSE c + 1

\* ComponentManager.make_custom_id: the string returned for a component whose
\* type is registered on the manager under identifier and whose dumped
\* parameters are fields.
MakeCustomIdWith(sep, count, c, identifier, fields) ==
    LET ident == IF count THEN identifier \o minimise_count(c) ELSE identifier
    IN  Join(<<ident>> \o fields, sep)

(***************************************************************************)
(* Module liveness.                                                        *)
(***************************************************************************)
NoModuleData == [name |-> "", id |-> 0]

\* _ModuleData.is_active
is_active(md, mods) ==
    IF mods[md.name] = 0 THEN FALSE ELSE md.id = mods[md.name]

\* _ModuleData.is_reload_of
is_reload_of(md, other) == md.name = other.name /\ md.id # other.id

\* ComponentMeta.is_active: the class's own module object is the current one.
TypeIsActive(t, mods) == mods[t.module] # 0 /\ t.id = mods[t.module]

\* A dict with key k set to v, and with key k removed.
DictSet(d, k, v) == [x \in DOMAIN d \cup {k} |-> IF x = k THEN v ELSE d[x]]
DictPop(d, k) == [x \in DOMAIN d \ {k} |-> d[x]]
EmptyDict == [x \in {} |-> NoType]

(***************************************************************************)
(* Initial state: nothing imported, no manager created.                    *)
(***************************************************************************)
NoException == [src |-> "none", at |-> NoManager]
IdleInvocation ==
    [pc |-> "idle", managers |-> <<>>, i |-> 0, exc |-> NoException,
     outcome |-> "none"]

\* ComponentManager.__init__ for every manager get_manager may create.
\* No library function is being applied.
NoCall == [fn |-> "none"]

\* The events a manager's invoke listens to (manager.py:28-29).
COMPONENT_EVENT == "on_message_interaction"
MODAL_EVENT == "on_modal_submit"
\* bot.extra_events of a bot no listener was added to.
NoListeners == [ev \in {COMPONENT_EVENT, MODAL_EVENT} |-> <<>>]

Init ==
    /\ call = NoCall
    /\ store = {}
    /\ children = [n \in Names |-> {}]
    /\ components = [n \in Names |-> EmptyDict]
    /\ identifiers = [n \in Names |-> EmptyDict]
    /\ module_data = [n \in Names |-> EmptyDict]
    /\ cfg_sep = [n \in Names |-> NoSep]
    /\ cfg_count = [n \in Names |-> "None"]
    /\ counter = [n \in Names |-> 0]
    /\ wrap_callback = [n \in Names |-> "default"]
    /\ handle_exception = [n \in Names |-> "default"]
    /\ type_manager = [t \in Types |-> NoManager]
    /\ sys_modules = [m \in Modules |-> 0]
    /\ loaded = [m \in Modules |-> 0]
    /\ collected = {}
    /\ issued = <<>>
    /\ last = [op |-> "none", error |-> "none"]
    /\ calls = 0
    /\ setups = 0
    /\ inv = IdleInvocation
    /\ trace = <<>>
    /\ extra_events = NoListeners
    /\ bot_calls = <<>>

\* The class objects that exist: defined by a module object created so far
\* and not yet reclaimed.
Alive(t) == t.id <= loaded[t.module] /\ t \notin collected

Idle == inv.pc = "idle"

(***************************************************************************)
(* get_manager and ComponentManager.config.                                *)
(***************************************************************************)
\* get_manager(name) for a name that has no manager yet.
GetManager(name) ==
    /\ UNCHANGED <<call, botVars>>
    /\ Idle
    /\ name \notin store
    /\ store' = StoreAfterGet(store, name)
    /\ children' = ChildrenAfterGet(store, children, name)
    /\ UNCHANGED <<last, registryVars, configVars, hookVars, moduleVars, counter,
                   issued, calls, setups, inv, trace>>

\* ComponentManager.config(count=..., sep=...); "NotSet" leaves the option.
Config(name, count, sep) ==
    /\ UNCHANGED <<call, botVars>>
    /\ Idle
    /\ name \in store
    /\ cfg_count' = IF count # "NotSet"
                    THEN [cfg_count EXCEPT ![name] = count] ELSE cfg_count
    /\ cfg_sep' = IF sep # NotSetSep
                  THEN [cfg_sep EXCEPT ![name] = sep] ELSE cfg_sep
    /\ <<cfg_count', cfg_sep'>> # <<cfg_count, cfg_sep>>
    /\ setups < MaxSetups
    /\ setups' = setups + 1
    /\ UNCHANGED <<last, store, children, registryVars, hookVars, moduleVars,
                   counter, issued, calls, inv, trace>>

(***************************************************************************)
(* The import system: sys.modules.                                         *)
(***************************************************************************)
\* import of a module that is not in sys.modules: a new module object.
LoadModule(m) ==
    /\ UNCHANGED <<call, botVars>>
    /\ Idle
    /\ sys_modules[m] = 0
    /\ loaded[m] < Generations(m)
    /\ loaded' = [loaded EXCEPT ![m] = @ + 1]
    /\ sys_modules' = [sys_modules EXCEPT ![m] = loaded[m] + 1]
    /\ UNCHANGED <<last, store, children, registryVars, configVars, hookVars,
                   collected, counter, issued, calls, setups, inv, trace>>

\* The module is removed from sys.modules.
UnloadModule(m) ==
    /\ UNCHANGED <<call, botVars>>
    /\ Idle
    /\ sys_modules[m] # 0
    /\ sys_modules' = [sys_modules EXCEPT ![m] = 0]
    /\ UNCHANGED <<last, store, children, registryVars, configVars, hookVars,
                   loaded, collected, counter, issued, calls, setups, inv, trace>>

\* Hot reload: the module name is bound to a new module object.
ReloadModule(m) ==
    /\ UNCHANGED <<call, botVars>>
    /\ Idle
    /\ sys_modules[m] # 0
    /\ loaded[m] < Generations(m)
    /\ loaded' = [loaded EXCEPT ![m] = @ + 1]
    /\ sys_modules' = [sys_modules EXCEPT ![m] = loaded[m] + 1]
    /\ UNCHANGED <<last, store, children, registryVars, configVars, hookVars,
                   collected, counter, issued, calls, setups, inv, trace>>

\* _components is a WeakValueDictionary: a class whose module object is no
\* longer the one in sys.modules may be reclaimed, and its entries vanish.
Collect(t) ==
    /\ UNCHANGED <<call, botVars>>
    /\ Idle
    /\ Alive(t)
    /\ ~TypeIsActive(t, sys_modules)
    /\ \E n \in Names : \E k \in DOMAIN components[n] : components[n][k] = t
    /\ collected' = collected \cup {t}
    /\ components' =
         [n \in Names |->
            [k \in {x \in DOMAIN components[n] : components[n][x] # t}
               |-> components[n][k]]]
    /\ UNCHANGED <<last, store, children, identifiers, module_data, type_manager,
                   configVars, hookVars, sys_modules, loaded, counter, issued,
                   calls, setups, inv, trace>>

(***************************************************************************)
(* ComponentManager.register.                                              *)
(***************************************************************************)
\* identifier or self.make_identifier(component_type)
ResolvedIdentifier(t, identifier) ==
    IF identifier # NoIdent THEN identifier ELSE make_identifier(t)

\* _ModuleData.from_object, for a class whose module name is in sys.modules.
from_object(t, mods) == [name |-> t.module, id |-> mods[t.module]]

\* The duplicate check of register (manager.py:446-465): TRUE when register
\* raises RuntimeError.
IsDuplicate(comps, mds, resolved, md) ==
    /\ resolved \in DOMAIN comps[ROOT]
    /\ ~is_reload_of(md, mds[ROOT][resolved])

\* A per-manager dict with key k set to v on every manager of chain.
SetOnChain(dicts, chain, k, v) ==
    [m \in Names |->
        IF m \in Range(chain) THEN DictSet(dicts[m], k, v) ELSE dicts[m]]

\* manager.register(component_type, identifier=identifier)
Register(n, t, identifier) ==
    LET resolved == ResolvedIdentifier(t, identifier)
        chain == RecurseParents(n)
    IN
    /\ UNCHANGED <<call, botVars>>
    /\ Idle
    /\ n \in store
    /\ Alive(t)
    /\ calls < MaxCalls
    /\ calls' = calls + 1
    /\ IF sys_modules[t.module] = 0
       THEN \* sys.modules[obj.__module__] raises KeyError
            /\ last' = [op |-> "register", error |-> "KeyError"]
            /\ UNCHANGED <<store, children, registryVars>>
       ELSE LET md == from_object(t, sys_modules) IN
            IF IsDuplicate(components, module_data, resolved, md)
            THEN /\ last' = [op |-> "register", error |-> "RuntimeError"]
                 /\ store' = StoreAfterGet(store, ROOT)
                 /\ children' = ChildrenAfterGet(store, children, ROOT)
                 /\ UNCHANGED registryVars
            ELSE /\ last' = [op |-> "register", error |-> "none"]
                 /\ store' = StoreAfterWalk(StoreAfterGet(store, ROOT), n)
                 /\ children' = ChildrenAfterWalk(store, children, n)
                 /\ type_manager' = [type_manager EXCEPT ![t] = n]
                 /\ components' = SetOnChain(components, chain, resolved, t)
                 /\ identifiers' = SetOnChain(identifiers, chain, t.name, resolved)
                 /\ module_data' = SetOnChain(module_data, chain, resolved, md)
    /\ UNCHANGED <<configVars, hookVars, moduleVars, counter, issued, setups,
                   inv, trace>>

(***************************************************************************)
(* ComponentManager.deregister.                                            *)
(***************************************************************************)
\* The loop of deregister (manager.py:500-502) over the managers of chain:
\* dict.pop raises KeyError at the first manager that lacks the key, and
\* what was popped before stays popped.
RECURSIVE DeregisterLoop(_, _, _, _)
DeregisterLoop(comps, mds, chain, identifier) ==
    IF chain = <<>>
    THEN [components |-> comps, module_data |-> mds, error |-> "none"]
    ELSE LET m == Head(chain) IN
         IF identifier \notin DOMAIN comps[m]
         THEN [components |-> comps, module_data |-> mds, error |-> "KeyError"]
         ELSE LET comps2 == [comps EXCEPT ![m] = DictPop(@, identifier)] IN
              IF identifier \notin DOMAIN mds[m]
              THEN [components |-> comps2, module_data |-> mds,
                    error |-> "KeyError"]
              ELSE DeregisterLoop(comps2,
                                  [mds EXCEPT ![m] = DictPop(@, identifier)],
                                  Tail(chain), identifier)

\* ComponentManager.deregister called on manager n for class t: the
\* registry maps after the call and the exception raised, if any.
DeregisterResult(comps, mds, tm, n, t) ==
    LET identifier == make_identifier(t) IN
    IF identifier \notin DOMAIN comps[n]
    THEN \* self._components[identifier] raises KeyError
         [components |-> comps, module_data |-> mds, error |-> "KeyError",
          walked |-> NoManager]
    ELSE LET component == comps[n][identifier] IN
         IF tm[component] = NoManager
         THEN [components |-> comps, module_data |-> mds,
               error |-> "TypeError", walked |-> NoManager]
         ELSE LET r == DeregisterLoop(comps, mds,
                                      RecurseParents(tm[component]), identifier)
              IN  [components |-> r.components, module_data |-> r.module_data,
                   error |-> r.error, walked |-> tm[component]]

\* manager.deregister(component_type)
Deregister(n, t) ==
    LET r == DeregisterResult(components, module_data, type_manager, n, t) IN
    /\ UNCHANGED <<call, botVars>>
    /\ Idle
    /\ n \in store
    /\ Alive(t)
    /\ calls < MaxCalls
    /\ calls' = calls + 1
    /\ components' = r.components
    /\ module_data' = r.module_data
    /\ store' = StoreAfterWalk(store, r.walked)
    /\ children' = ChildrenAfterWalk(store, children, r.walked)
    /\ last' = [op |-> "deregister", error |-> r.error]
    /\ UNCHANGED <<identifiers, type_manager, configVars, hookVars, moduleVars,
                   counter, issued, setups, inv, trace>>

(***************************************************************************)
(* ComponentManager.make_custom_id.                                        *)
(***************************************************************************)
\* The custom ids in flight: the newest MaxIssued ones are kept.
Remember(tokens, tok) ==
    IF Len(tokens) < MaxIssued THEN Append(tokens, tok)
    ELSE Append(Tail(tokens), tok)

\* await manager.make_custom_id(component), for an instance of class t whose
\* factory dumps its parameters to fields.
MakeCustomId(n, t, fields) ==
    /\ UNCHANGED <<call, botVars>>
    /\ Idle
    /\ n \in store
    /\ Alive(t)
    /\ counter[n] < MaxMade
    /\ IF t.name \notin DOMAIN identifiers[n]
       THEN \* self._identifiers[type(component).__name__] raises KeyError
            /\ last' = [op |-> "make_custom_id", error |-> "KeyError"]
            /\ UNCHANGED <<store, children, counter, issued>>
       ELSE /\ last' = [op |-> "make_custom_id", error |-> "none"]
            /\ store' = StoreAfterWalk(store, n)
            /\ children' = ChildrenAfterWalk(store, children, n)
            /\ counter' = IF Count(n)
                          THEN [counter EXCEPT ![n] = IncrementCounter(@)]
                          ELSE counter
            /\ issued' = Remember(issued,
                 [custom_id |-> MakeCustomIdWith(Sep(n), Count(n), counter[n],
                                                 identifiers[n][t.name], fields),
                  node |-> n, type |-> t,
                  identifier |-> identifiers[n][t.name], fields |-> fields])
    /\ UNCHANGED <<registryVars, configVars, hookVars, moduleVars, calls,
                   setups, inv, trace>>

(***************************************************************************)
(* Callback wrappers and exception handlers.                               *)
(***************************************************************************)
\* What the async generator handed to as_callback_wrapper does:
\*   "default"       yield                       (default_callback_wrapper)
\*   "raise_before"  raise ...; yield
\*   "raise_after"   yield; raise ...
\*   "swallow"       try: yield / except Exception: pass
WrapperKinds == {"default", "raise_before", "raise_after", "swallow"}

\* What the coroutine handed to as_exception_handler does:
\*   "default"  default_exception_handler
\*   "true"     return True      "false"  return False
\*   "none"     return None      "raises" raise ...
HandlerKinds == {"default", "true", "false", "none", "raises"}

\* manager.as_callback_wrapper(func)
AsCallbackWrapper(n, kind) ==
    /\ UNCHANGED <<call, botVars>>
    /\ Idle
    /\ n \in store
    /\ wrap_callback[n] # kind
    /\ setups < MaxSetups
    /\ setups' = setups + 1
    /\ wrap_callback' = [wrap_callback EXCEPT ![n] = kind]
    /\ UNCHANGED <<last, store, children, registryVars, configVars,
                   handle_exception, moduleVars, counter, issued, calls, inv,
                   trace>>

\* manager.as_exception_handler(func)
AsExceptionHandler(n, kind) ==
    /\ UNCHANGED <<call, botVars>>
    /\ Idle
    /\ n \in store
    /\ handle_exception[n] # kind
    /\ setups < MaxSetups
    /\ setups' = setups + 1
    /\ handle_exception' = [handle_exception EXCEPT ![n] = kind]
    /\ UNCHANGED <<last, store, children, registryVars, configVars,
                   wrap_callback, moduleVars, counter, issued, calls, inv,
                   trace>>

\* A default handler that mistakes the other managers for the root: it
\* declines on the root and reports handled everywhere else.
default_exception_handler_inverted(name) ==
    IF name = ROOT THEN "False" ELSE "True"
\* default_exception_handler: what it returns on manager name.
default_exception_handler(name) == IF name # ROOT THEN "False" ELSE "True"

\* await manager.handle_exception(...): "True", "False", "None" or "raised".
HandlerResult(kind, name) ==
    CASE kind = "default" -> default_exception_handler(name)
      [] kind = "true" -> "True"
      [] kind = "false" -> "False"
      [] kind = "none" -> "None"
      [] kind = "raises" -> "raised"

\* default_exception_handler reaches _LOGGER.exception (manager.py:130) on
\* the root manager only.
Logs(kind, name) == kind = "default" /\ name = ROOT

\* An invoke that ignores what the handlers return and never breaks out of
\* the loop.
TruthyIgnored(result) == FALSE
\* The truth value invoke tests at manager.py:682.
Truthy(result) == result = "True"

\* contextlib.asynccontextmanager.__aenter__ on a wrapper of this kind:
\* TRUE when the generator raises before it yields.
EnterRaises(kind) == kind = "raise_before"

\* contextlib.asynccontextmanager.__aexit__ on a wrapper of this kind that
\* was entered on manager name, with exc the exception in flight: the
\* exception in flight afterwards.
ExitWrapperResult(kind, name, exc) ==
    IF exc = NoException
    THEN IF kind = "raise_after"
         THEN [src |-> "wrapper", at |-> name]
         ELSE NoException
    ELSE IF kind = "swallow" THEN NoException ELSE exc

(***************************************************************************)
(* ComponentManager.parse_interaction and ComponentManager.invoke.         *)
(***************************************************************************)
\* What component_type.factory.build_from_interaction does with the params.
BuildOutcomes == {"built", "raises"}

\* ComponentManager.parse_interaction on manager n: the component found
\* (NoType is None), the exception raised, and the registry maps afterwards.
ParseInteraction(n, custom_id, build) ==
    LET identifier == get_identifier(n, custom_id).name
        same == [component |-> NoType, error |-> "none",
                 components |-> components, module_data |-> module_data]
    IN  IF identifier \notin DOMAIN components[n]
        THEN same
        ELSE LET component_type == components[n][identifier]
                 md == module_data[n][identifier]
             IN  IF ~is_active(md, sys_modules)
                 THEN LET d == DeregisterResult(components, module_data,
                                                type_manager, n, component_type)
                      IN  [component |-> NoType, error |-> d.error,
                           components |-> d.components,
                           module_data |-> d.module_data]
                 ELSE IF build = "raises"
                 THEN [same EXCEPT !.error = "ConversionError"]
                 ELSE [same EXCEPT !.component = component_type]

Event(ev, at, res) == [ev |-> ev, at |-> at, res |-> res]

\* invoke up to its try statement (manager.py:644-663), given what
\* parse_interaction returned: the invocation record afterwards.
StartStep(p) ==
    IF p.error # "none"
    THEN [IdleInvocation EXCEPT !.pc = "done", !.outcome = "raised",
                                !.exc = [src |-> p.error, at |-> NoManager]]
    ELSE IF p.component = NoType \/ type_manager[p.component] = NoManager
    THEN [IdleInvocation EXCEPT !.pc = "done", !.outcome = "returned"]
    ELSE LET managers == RecurseParents(type_manager[p.component]) IN
         [IdleInvocation EXCEPT !.pc = "enter", !.managers = managers,
                                !.i = Len(managers)]

\* An invoke that runs the callback as soon as the root's wrapper was
\* entered, without entering the wrappers of the managers below it.
EnterStepRootOnly(iv, tr) ==
    LET m == iv.managers[iv.i] IN
    IF EnterRaises(wrap_callback[m])
    THEN [inv |-> [iv EXCEPT !.pc = "exit", !.i = iv.i + 1,
                             !.exc = [src |-> "wrapper", at |-> m]],
          trace |-> Append(tr, Event("enter_raised", m, "wrapper"))]
    ELSE [inv |-> [iv EXCEPT !.pc = "callback", !.i = iv.i - 1],
          trace |-> Append(tr, Event("enter", m, "none"))]
\* An invoke that hands the exception of a wrapper that raised before its
\* yield to the handlers without resuming the wrappers entered before it.
EnterStepNoUnwind(iv, tr) ==
    LET m == iv.managers[iv.i] IN
    IF EnterRaises(wrap_callback[m])
    THEN [inv |-> [iv EXCEPT !.pc = "handle", !.i = 1,
                             !.exc = [src |-> "wrapper", at |-> m]],
          trace |-> Append(tr, Event("enter_raised", m, "wrapper"))]
    ELSE [inv |-> [iv EXCEPT !.pc = IF iv.i = 1 THEN "callback" ELSE "enter",
                             !.i = iv.i - 1],
          trace |-> Append(tr, Event("enter", m, "none"))]
\* One turn of the loop at manager.py:668-671: enter the wrapper of
\* reversed(managers)'s next manager.  When it raises, the exit stack
\* unwinds the wrappers entered so far.
EnterStep(iv, tr) ==
    LET m == iv.managers[iv.i] IN
    IF EnterRaises(wrap_callback[m])
    THEN [inv |-> [iv EXCEPT !.pc = "exit", !.i = iv.i + 1,
                             !.exc = [src |-> "wrapper", at |-> m]],
          trace |-> Append(tr, Event("enter_raised", m, "wrapper"))]
    ELSE [inv |-> [iv EXCEPT !.pc = IF iv.i = 1 THEN "callback" ELSE "enter",
                             !.i = iv.i - 1],
          trace |-> Append(tr, Event("enter", m, "none"))]

\* await component.callback(wrapped) (manager.py:674-675).
CallbackStep(iv, tr, raises) ==
    [inv |-> [iv EXCEPT !.pc = "exit", !.i = 1,
                !.exc = IF raises
                        THEN [src |-> "callback", at |-> iv.managers[1]]
                        ELSE NoException],
     trace |-> Append(tr, Event("callback", iv.managers[1],
                                IF raises THEN "raised" ELSE "none"))]

\* AsyncExitStack.__aexit__: the wrappers entered are exited last in, first
\* out; after the last one the exception still in flight reaches the except
\* clause of invoke (manager.py:677).
ExitStep(iv, tr) ==
    IF iv.i <= Len(iv.managers)
    THEN LET m == iv.managers[iv.i] IN
         [inv |-> [iv EXCEPT !.i = iv.i + 1,
                     !.exc = ExitWrapperResult(wrap_callback[m], m, iv.exc)],
          trace |-> Append(tr, Event("exit", m, iv.exc.src))]
    ELSE [inv |-> IF iv.exc = NoException
                  THEN [iv EXCEPT !.pc = "done", !.outcome = "returned"]
                  ELSE [iv EXCEPT !.pc = "handle", !.i = 1],
          trace |-> tr]

\* One turn of the loop at manager.py:681-687.
HandleStep(iv, tr) ==
    LET m == iv.managers[iv.i]
        result == HandlerResult(handle_exception[m], m)
    IN  [inv |-> IF result = "raised"
                 THEN [iv EXCEPT !.pc = "done", !.outcome = "raised",
                                 !.exc = [src |-> "handler", at |-> m]]
                 ELSE IF Truthy(result) \/ iv.i = Len(iv.managers)
                 THEN [iv EXCEPT !.pc = "done", !.outcome = "returned"]
                 ELSE [iv EXCEPT !.i = iv.i + 1],
         trace |-> IF Logs(handle_exception[m], m)
                   THEN tr \o <<Event("log", m, iv.exc.src),
                                Event("handler", m, result)>>
                   ELSE Append(tr, Event("handler", m, result))]

\* invoke from its try statement to its end, for a callback that raises or
\* does not.
RECURSIVE RunInvoke(_, _, _)
RunInvoke(iv, tr, raises) ==
    LET next == CASE iv.pc = "enter" -> EnterStep(iv, tr)
                  [] iv.pc = "callback" -> CallbackStep(iv, tr, raises)
                  [] iv.pc = "exit" -> ExitStep(iv, tr)
                  [] iv.pc = "handle" -> HandleStep(iv, tr)
                  [] OTHER -> [inv |-> iv, trace |-> tr]
    IN  IF iv.pc = "done" THEN [inv |-> iv, trace |-> tr]
        ELSE RunInvoke(next.inv, next.trace, raises)

\* What the start of invoke leaves unchanged apart from the registry maps.
InvokeFrame ==
    UNCHANGED <<identifiers, type_manager, configVars, hookVars, moduleVars,
                counter, issued, setups>>

\* await manager.invoke(interaction) for an interaction with this custom id,
\* run to its end.
Invoke(n, custom_id, build, raises) ==
    LET p == ParseInteraction(n, custom_id, build)
        r == RunInvoke(StartStep(p), <<>>, raises)
    IN
    /\ UNCHANGED <<call, botVars>>
    /\ Idle
    /\ n \in store
    /\ calls < MaxCalls
    /\ calls' = calls + 1
    /\ components' = p.components
    /\ module_data' = p.module_data
    /\ store' = StoreAfterWalk(store, n)
    /\ children' = ChildrenAfterWalk(store, children, n)
    /\ inv' = r.inv
    /\ trace' = r.trace
    /\ last' = [op |-> "invoke",
                error |-> IF r.inv.outcome = "raised" THEN r.inv.exc.src
                          ELSE "none"]
    /\ InvokeFrame

\* The same call, stopped at its first suspension point.
InvokeStart(n, custom_id, build) ==
    LET p == ParseInteraction(n, custom_id, build) IN
    /\ UNCHANGED <<call, botVars>>
    /\ Idle
    /\ n \in store
    /\ calls < MaxCalls
    /\ calls' = calls + 1
    /\ components' = p.components
    /\ module_data' = p.module_data
    /\ store' = StoreAfterWalk(store, n)
    /\ children' = ChildrenAfterWalk(store, children, n)
    /\ inv' = StartStep(p)
    /\ trace' = <<>>
    /\ last' = [op |-> "invoke",
                error |-> IF StartStep(p).outcome = "raised"
                          THEN StartStep(p).exc.src ELSE "none"]
    /\ InvokeFrame

DispatchFrame ==
    UNCHANGED <<store, children, registryVars, configVars, hookVars,
                moduleVars, counter, issued, calls, setups>>

EnterWrapper ==
    /\ UNCHANGED <<call, botVars>>
    /\ inv.pc = "enter"
    /\ inv' = EnterStep(inv, trace).inv
    /\ trace' = EnterStep(inv, trace).trace
    /\ UNCHANGED last
    /\ DispatchFrame

RunCallback(raises) ==
    /\ UNCHANGED <<call, botVars>>
    /\ inv.pc = "callback"
    /\ inv' = CallbackStep(inv, trace, raises).inv
    /\ trace' = CallbackStep(inv, trace, raises).trace
    /\ UNCHANGED last
    /\ DispatchFrame

ExitWrapper ==
    /\ UNCHANGED <<call, botVars>>
    /\ inv.pc = "exit"
    /\ inv' = ExitStep(inv, trace).inv
    /\ trace' = ExitStep(inv, trace).trace
    /\ UNCHANGED last
    /\ DispatchFrame

HandleException ==
    /\ UNCHANGED <<call, botVars>>
    /\ inv.pc = "handle"
    /\ inv' = HandleStep(inv, trace).inv
    /\ trace' = HandleStep(inv, trace).trace
    /\ last' = [op |-> "invoke",
                error |-> IF inv'.outcome = "raised" THEN inv'.exc.src
                          ELSE "none"]
    /\ DispatchFrame

\* invoke has returned or raised to the event loop; the manager is ready
\* for the next event.
InvokeReturn ==
    /\ UNCHANGED <<call, botVars>>
    /\ inv.pc = "done"
    /\ inv' = IdleInvocation
    /\ trace' = <<>>
    /\ UNCHANGED last
    /\ DispatchFrame

(***************************************************************************)
(* The registry and the dispatcher under registration, hot reload,         *)
(* deregistration and stale eviction, with the default hooks and settings. *)
(***************************************************************************)
\* The custom ids the event source may deliver: those a manager with the
\* default settings makes for a component without fields under each
\* identifier, and one of an unrelated application ("Z").
Identifiers == ClassNames \cup ExplicitIdents
EventCustomIds ==
    {MakeCustomIdWith(DEFAULT_SEP, DEFAULT_COUNT, 0, identifier, << >>) :
        identifier \in Identifiers} \cup {<<90>>}

Next ==
    \/ \E name \in Names : GetManager(name)
    \/ \E m \in Modules : LoadModule(m)
    \/ \E m \in Modules : UnloadModule(m)
    \/ \E m \in Modules : ReloadModule(m)
    \/ \E t \in Types : Collect(t)
    \/ \E n \in Names, t \in Types, identifier \in ExplicitIdents \cup {NoIdent} :
          Register(n, t, identifier)
    \/ \E n \in Names, t \in Types : Deregister(n, t)
    \/ \E n \in Names, custom_id \in EventCustomIds, build \in BuildOutcomes,
          raises \in BOOLEAN : Invoke(n, custom_id, build, raises)
    \/ InvokeReturn

Spec == Init /\ [][Next]_vars

(***************************************************************************)
(* The dispatcher with hooks: one class registered, the managers' callback *)
(* wrappers and exception handlers replaced at will, events delivered one  *)
(* suspension point at a time.                                             *)
(***************************************************************************)
\* The class of module m1's first module object.
A1 == [name |-> <<65>>, module |-> "m1", id |-> 1]
\* The custom id a manager with the default settings makes for A.
A1CustomId == MakeCustomIdWith(DEFAULT_SEP, DEFAULT_COUNT, 0, <<65>>, << >>)

\* The program has created its managers, imported m1 and registered class A
\* on one of the managers.
InitRegistered ==
    \E owner \in Names :
        LET chain == RecurseParents(owner)
            none == [n \in Names |-> EmptyDict]
            created == StoreAfterGet(StoreAfterGet({}, ROOT), <<"a", "b">>)
        IN
        /\ store = created
        /\ children = ChildrenAfterGet(StoreAfterGet({}, ROOT),
                                       [n \in Names |-> {}], <<"a", "b">>)
        /\ sys_modules = [m \in Modules |-> IF m = "m1" THEN 1 ELSE 0]
        /\ loaded = [m \in Modules |-> IF m = "m1" THEN 1 ELSE 0]
        /\ components = SetOnChain(none, chain, make_identifier(A1), A1)
        /\ identifiers = SetOnChain(none, chain, A1.name, make_identifier(A1))
        /\ module_data = SetOnChain(none, chain, make_identifier(A1),
                                    from_object(A1, [m \in Modules |-> 1]))
        /\ type_manager = [t \in Types |-> IF t = A1 THEN owner ELSE NoManager]
        /\ cfg_sep = [n \in Names |-> NoSep]
        /\ cfg_count = [n \in Names |-> "None"]
        /\ counter = [n \in Names |-> 0]
        /\ wrap_callback = [n \in Names |-> "default"]
        /\ handle_exception = [n \in Names |-> "default"]
        /\ collected = {}
        /\ issued = <<>>
        /\ last = [op |-> "register", error |-> "none"]
        /\ calls = 0
        /\ setups = 0
        /\ inv = IdleInvocation
        /\ trace = <<>>
        /\ extra_events = NoListeners
        /\ bot_calls = <<>>

InitDispatch == call = NoCall /\ InitRegistered

NextDispatch ==
    \/ \E n \in Names, kind \in WrapperKinds : AsCallbackWrapper(n, kind)
    \/ \E n \in Names, kind \in HandlerKinds : AsExceptionHandler(n, kind)
    \/ \E n \in Names, custom_id \in {A1CustomId, <<90>>},
          build \in BuildOutcomes : InvokeStart(n, custom_id, build)
    \/ EnterWrapper
    \/ \E raises \in BOOLEAN : RunCallback(raises)
    \/ ExitWrapper
    \/ HandleException
    \/ InvokeReturn

SpecDispatch == InitDispatch /\ [][NextDispatch]_vars

(***************************************************************************)
(* Custom ids under configuration: one class registered, the managers'     *)
(* sep and count options set at will, custom ids made.                     *)
(***************************************************************************)
\* Dumped parameters that contain no separator: no field, one field "v".
PlainFieldLists == {<< >>, << <<118>> >>}
\* Values of the count option: None, True, False.
CountOptions == {"None", "True", "False"}

NextCodec ==
    \/ \E n \in Names, count \in CountOptions \cup {"NotSet"},
          sep \in Seps \cup {NoSep, NotSetSep} : Config(n, count, sep)
    \/ \E n \in Names, t \in Types, fields \in PlainFieldLists :
          MakeCustomId(n, t, fields)

SpecCodec == InitDispatch /\ [][NextCodec]_vars

(***************************************************************************)
(* Properties of the dispatcher (SpecDispatch).                            *)
(***************************************************************************)
\* The events of a kind in a trace, in order.
RECURSIVE EventsOf(_, _)
EventsOf(tr, ev) ==
    IF tr = <<>> THEN <<>>
    ELSE IF Head(tr).ev = ev THEN <<Head(tr)>> \o EventsOf(Tail(tr), ev)
    ELSE EventsOf(Tail(tr), ev)

\* The managers from the one class A is registered on up to the root.
OwnerChain == RecurseParents(type_manager[A1])
Done == inv.pc = "done"
CallbackRaised ==
    \E k \in 1..Len(trace) : trace[k].ev = "callback" /\ trace[k].res = "raised"
CallbackRan == \E k \in 1..Len(trace) : trace[k].ev = "callback"

\* C1: when the component callback raises, the exception handlers are called
\* in the order owner, parent(owner), ..., root: the k-th handler called is
\* that of the k-th manager up from the owner; no handler is called after
\* one that returned True; the owner's handler is called unless a wrapper
\* suppressed the exception; and the walk ends only at a handler that
\* returned True or raised, or at the root.
ExceptionCascadeOrder ==
    LET hs == EventsOf(trace, "handler") IN
    CallbackRaised =>
        /\ Len(hs) <= Len(OwnerChain)
        /\ \A k \in 1..Len(hs) : hs[k].at = OwnerChain[k]
        /\ \A k \in 1..(Len(hs) - 1) : hs[k].res # "True"
        /\ OwnerChain[Len(OwnerChain)] = ROOT
        /\ (Done /\ \A k \in 1..Len(OwnerChain) :
                       wrap_callback[OwnerChain[k]] # "swallow") => Len(hs) > 0
        /\ (Done /\ Len(hs) > 0) =>
              \/ hs[Len(hs)].res \in {"True", "raised"}
              \/ hs[Len(hs)].at = ROOT

\* C1 witness: the callback of a component of "a.b" raised, the handler of
\* "a.b" declined, the handler of "a" returned True, the root's handler was
\* not called.
ExceptionCascadeWitness ==
    LET hs == EventsOf(trace, "handler") IN
    /\ Done /\ CallbackRaised
    /\ type_manager[A1] = <<"a", "b">>
    /\ Len(hs) = 2
    /\ hs[1].at = <<"a", "b">> /\ hs[1].res \in {"False", "None"}
    /\ hs[2].at = <<"a">> /\ hs[2].res = "True"

\* C2: the callback wrappers are entered in the order root, ..., owner; the
\* callback runs only after every manager's wrapper was entered; the
\* wrappers are resumed after the callback in the order owner, ..., root,
\* and all of them are.
WrapperOrder ==
    LET entered == EventsOf(trace, "enter")
        exits == EventsOf(trace, "exit")
        n == Len(OwnerChain)
    IN  /\ \A k \in 1..Len(entered) : entered[k].at = OwnerChain[n + 1 - k]
        /\ CallbackRan =>
              /\ Len(entered) = n
              /\ \A k \in 1..n : trace[k].ev = "enter"
              /\ trace[n + 1].ev = "callback"
              /\ \A k \in 1..Len(exits) :
                    /\ exits[k].at = OwnerChain[k]
                    /\ trace[n + 1 + k] = exits[k]
              /\ Done => Len(exits) = n

\* C2 witness: a component of "a.b" ran through root, "a", "a.b", the
\* callback, "a.b", "a", root.
WrapperOrderWitness ==
    /\ Done
    /\ Len(trace) = 7
    /\ trace[1] = Event("enter", ROOT, "none")
    /\ trace[2] = Event("enter", <<"a">>, "none")
    /\ trace[3] = Event("enter", <<"a", "b">>, "none")
    /\ trace[4] = Event("callback", <<"a", "b">>, "none")
    /\ trace[5] = Event("exit", <<"a", "b">>, "none")
    /\ trace[6] = Event("exit", <<"a">>, "none")
    /\ trace[7] = Event("exit", ROOT, "none")

InvokeNeverRaises ==
    (Done /\ inv.managers # <<>>) => inv.outcome = "returned"

(***************************************************************************)
(* Properties of the registry (Spec).                                      *)
(***************************************************************************)
\* The managers at or below name: those whose walk up to the root passes
\* through it.
Descendants(name) == {d \in Names : name \in Range(RecurseParents(d))}
\* The identifier-to-type map of a manager, as a set of pairs.
Visible(name) ==
    {<<k, components[name][k]>> : k \in DOMAIN components[name]}
\* The registrations a manager owns: those of the classes whose manager
\* attribute names it.
Owned(name) == {p \in Visible(name) : type_manager[p[2]] = name}

\* C5: in every reachable state each manager's identifier-to-type map is the
\* union of the registrations owned by it and by the managers below it, and
\* an identifier mapped on a manager is mapped to the same class on every
\* manager above it up to the root.
VisibleIsUnionOfOwned ==
    \A n \in Names :
        /\ Visible(n) = UNION {Owned(d) : d \in Descendants(n)}
        /\ \A k \in DOMAIN components[n] :
              \A m \in Range(RecurseParents(n)) :
                 /\ k \in DOMAIN components[m]
                 /\ components[m][k] = components[n][k]

\* Identifier r is mapped on manager m to a registration whose module object
\* is the one in sys.modules, or is not.
LiveAt(m, r) ==
    /\ r \in DOMAIN components[m]
    /\ r \in DOMAIN module_data[m]
    /\ is_active(module_data[m][r], sys_modules)
StaleAt(m, r) ==
    /\ r \in DOMAIN components[m]
    /\ r \in DOMAIN module_data[m]
    /\ ~is_active(module_data[m][r], sys_modules)
\* The managers that map some identifier to class t.
MappedOn(t) ==
    {m \in Names : \E k \in DOMAIN components[m] : components[m][k] = t}
\* The identifier argument of register: an explicit one or None.
IdentifierArgs == ExplicitIdents \cup {NoIdent}

\* C7: register(T, identifier), for a class T of an imported module, raises
\* the duplicate-identifier error (RuntimeError) when the identifier is
\* already mapped on some manager to a registration whose module is still
\* the current one, and then no manager's components, identifiers or module
\* data map and no class's manager attribute is changed.
DuplicateRejected ==
    [][\A n \in Names, t \in Types, identifier \in IdentifierArgs :
          (/\ Register(n, t, identifier)
           /\ sys_modules[t.module] # 0
           /\ \E m \in Names : LiveAt(m, ResolvedIdentifier(t, identifier)))
          => (last'.error = "RuntimeError" /\ UNCHANGED registryVars)]_vars

\* C8: register(T', identifier), for a class T' of an imported module,
\* succeeds whenever the identifier is mapped and every registration under
\* it is no longer live, and afterwards the identifier resolves to T' on the
\* manager registered on, on every manager above it and wherever else it is
\* mapped.
StaleSuperseded ==
    [][\A n \in Names, t \in Types, identifier \in IdentifierArgs :
          LET r == ResolvedIdentifier(t, identifier) IN
          (/\ Register(n, t, identifier)
           /\ sys_modules[t.module] # 0
           /\ \E m \in Names : StaleAt(m, r)
           /\ \A m \in Names : ~LiveAt(m, r))
          => /\ last'.error = "none"
             /\ \A m \in Range(RecurseParents(n)) : r \in DOMAIN components'[m]
             /\ \A m \in Names :
                   r \in DOMAIN components'[m] => components'[m][r] = t]_vars

\* C9: when the custom id of an event resolves on the invoked manager to a
\* registration whose module is no longer the current one, invoke raises
\* nothing, enters no wrapper and runs no callback, and the registration is
\* removed from the manager that owns the class and from every manager above
\* it; for classes registered under their name and under an explicit
\* identifier alike.
StaleEventDropped ==
    [][\A n \in Names, custom_id \in EventCustomIds, build \in BuildOutcomes,
         raises \in BOOLEAN :
          LET r == get_identifier(n, custom_id).name IN
          (Invoke(n, custom_id, build, raises) /\ StaleAt(n, r))
          => LET owner == type_manager[components[n][r]] IN
             /\ last'.error = "none"
             /\ inv'.outcome = "returned"
             /\ trace' = <<>>
             /\ \A m \in Range(RecurseParents(owner)) :
                   r \notin DOMAIN components'[m]]_vars

\* C10: deregister(T) called on the manager T is registered on leaves no
\* identifier mapped to T on that manager and on every manager above it; and
\* deregister(T) for a class that was registered and is mapped nowhere any
\* more raises no error and changes no manager's maps.
DeregisterIdempotent ==
    [][\A n \in Names, t \in Types :
          Deregister(n, t) =>
             /\ (n = type_manager[t] /\ n \in MappedOn(t)) =>
                   \A m \in Range(RecurseParents(n)) :
                      \A k \in DOMAIN components'[m] : components'[m][k] # t
             /\ (type_manager[t] # NoManager /\ MappedOn(t) = {}) =>
                   /\ last'.error = "none"
                   /\ UNCHANGED registryVars]_vars

(***************************************************************************)
(* Properties of custom ids (SpecCodec).                                   *)
(***************************************************************************)
\* make_custom_id has just returned a custom id.
CustomIdMade == counter' # counter \/ issued' # issued

\* C6: a custom id made by make_custom_id on the manager a class is
\* registered on is resolved by get_identifier on that manager and on every
\* manager above it to the identifier the class is registered under and to
\* the dumped field strings, whatever sep and count are set on the managers.
CustomIdResolvesOnAncestors ==
    [][CustomIdMade =>
          LET tok == issued'[Len(issued')] IN
          tok.node = type_manager[tok.type] =>
             \A m \in Range(RecurseParents(tok.node)) :
                get_identifier(m, tok.custom_id) =
                   [name |-> tok.identifier, params |-> tok.fields]]_vars

(***************************************************************************)
(* The collision counter: custom ids made for equal component instances on *)
(* one manager, by coroutines that interleave at the suspension point of   *)
(* make_custom_id (await component.factory.dump_params, manager.py:349).   *)
(* issued is the log of the calls in the order they were made; a call that *)
(* has not returned yet has custom_id = NotReturned.                       *)
(***************************************************************************)
NotReturned == <<0 - 1>>

\* The calls that are suspended at dump_params.
Suspended == {i \in 1..Len(issued) : issued[i].custom_id = NotReturned}

\* make_custom_id up to its await (manager.py:344-349): the identifier is
\* looked up and, if the manager counts, the counter character is appended
\* and the counter incremented.
MakeCustomIdBegin(n, t, fields) ==
    /\ UNCHANGED <<call, botVars>>
    /\ Idle
    /\ n \in store
    /\ Alive(t)
    /\ Len(issued) < MaxLogged
    /\ Cardinality(Suspended) < MaxPending
    /\ issued # <<>> =>
          /\ n = issued[1].node
          /\ t = issued[1].type
          /\ fields = issued[1].fields
    /\ IF t.name \notin DOMAIN identifiers[n]
       THEN /\ last' = [op |-> "make_custom_id", error |-> "KeyError"]
            /\ UNCHANGED <<store, children, counter, issued>>
       ELSE LET identifier == identifiers[n][t.name] IN
            /\ last' = [op |-> "make_custom_id", error |-> "none"]
            /\ store' = StoreAfterWalk(store, n)
            /\ children' = ChildrenAfterWalk(store, children, n)
            /\ counter' = IF Count(n)
                          THEN [counter EXCEPT ![n] = IncrementCounter(@)]
                          ELSE counter
            /\ issued' = Append(issued,
                 [custom_id |-> NotReturned, node |-> n, type |-> t,
                  identifier |-> identifier, fields |-> fields,
                  local |-> IF Count(n)
                            THEN identifier \o minimise_count(counter[n])
                            ELSE identifier])
    /\ UNCHANGED <<registryVars, configVars, hookVars, moduleVars, calls,
                   setups, inv, trace>>

\* make_custom_id from its await to its return (manager.py:349-351).
MakeCustomIdEnd(i) ==
    /\ UNCHANGED <<call, botVars>>
    /\ i \in Suspended
    /\ issued' = [issued EXCEPT ![i].custom_id =
                     Join(<<issued[i].local>> \o issued[i].fields,
                          Sep(issued[i].node))]
    /\ store' = StoreAfterWalk(store, issued[i].node)
    /\ children' = ChildrenAfterWalk(store, children, issued[i].node)
    /\ UNCHANGED <<last, registryVars, configVars, hookVars, moduleVars,
                   counter, calls, setups, inv, trace>>

NextCounter ==
    \/ \E n \in Names, t \in Types, fields \in PlainFieldLists :
          MakeCustomIdBegin(n, t, fields)
    \/ \E i \in 1..MaxLogged : MakeCustomIdEnd(i)

SpecCounter == InitDispatch /\ [][NextCounter]_vars

\* The number of count characters (manager.py:86-88, 334): as many calls in
\* a row get different counter characters.
CounterPeriod == MaxCounter + 1

\* C11: with count enabled, the custom ids returned by any CounterPeriod
\* (25) or fewer consecutive make_custom_id calls on one manager for equal
\* instances, interleaved or not, are pairwise distinct, differ only in the
\* one character that follows the identifier, and get_identifier maps each
\* of them to the identifier and the field strings.
CounterTokensDistinct ==
    \A i \in 1..Len(issued) : \A j \in 1..Len(issued) :
       (/\ i < j /\ j - i < CounterPeriod
        /\ i \notin Suspended /\ j \notin Suspended
        /\ Count(issued[i].node))
       => LET a == issued[i].custom_id
              b == issued[j].custom_id
              at == Len(issued[i].identifier) + 1
          IN  /\ a # b
              /\ Len(a) = Len(b)
              /\ \A k \in 1..Len(a) : k # at => a[k] = b[k]
              /\ get_identifier(issued[i].node, a) =
                    [name |-> issued[i].identifier, params |-> issued[i].fields]
              /\ get_identifier(issued[j].node, b) =
                    [name |-> issued[i].identifier, params |-> issued[i].fields]

\* C11 witness: 25 calls in a row for an instance with one field have
\* returned their custom ids and the 26th call is suspended.
CounterTokensWitness ==
    /\ Len(issued) = CounterPeriod + 1
    /\ Suspended = {CounterPeriod + 1}
    /\ issued[1].fields # << >>
    /\ Count(issued[1].node)

\* C13: when the custom id of an event resolves on the invoked manager to a
\* registered class of a current module and building the instance from the
\* event fails (a parser raises), invoke drops the event: it raises nothing,
\* returns, and enters no wrapper, runs no callback and calls no handler.
BuildFailureDropped ==
    [][\A n \in Names, custom_id \in {A1CustomId, <<90>>} :
          LET r == get_identifier(n, custom_id).name IN
          (InvokeStart(n, custom_id, "raises") /\ LiveAt(n, r))
          => /\ last'.error = "none"
             /\ inv'.pc = "done"
             /\ inv'.outcome = "returned"
             /\ trace' = <<>>]_vars

\* The positions in the trace at which a wrapper raised before its yield.
EnterRaisedAt == {k \in 1..Len(trace) : trace[k].ev = "enter_raised"}

CallbackExceptionOffered ==
    (Done /\ CallbackRaised) =>
        \E k \in 1..Len(trace) :
           trace[k].ev = "handler" /\ trace[k].at = OwnerChain[1]

(***************************************************************************)
(* Custom id specs: CustomID.make_spec, regex.format_to_pattern,           *)
(* str.format_map and CustomID.match (impl/custom_id.py, internal/regex.py)*)
(***************************************************************************)
\* The largest number of fields of a custom id, the longest field string
\* and the longest string handed to match.
MaxFields == 2
MaxFieldLen == 2
MaxIdLen == 3

\* The line feed "\n", the one character that "." does not match without
\* re.DOTALL (regex.py:49 compiles with re.UNICODE only).
NEWLINE == <<10>>

\* Sequences over a set of at most a length.
SeqsUpTo(S, n) == UNION {[1..k -> S] : k \in 0..n}

\* Characters of field strings and of strings handed to match: a letter,
\* both separators and the line feed.
FieldChars == {118, 124, 35, NEWLINE[1]}
FieldStrings == SeqsUpTo(FieldChars, MaxFieldLen)
FieldTuples == SeqsUpTo(FieldStrings, MaxFields)
\* Names of components.
SpecNames == {<<65>>, <<65, 118>>}
\* Strings handed to match.
MatchStrings == SeqsUpTo(FieldChars \cup {65}, MaxIdLen)

\* match returned None.
NoMatch == [matched |-> FALSE, groups |-> << >>]

\* custom_id.py:48-70  the format string: the name, then for each field the
\* separator and a placeholder.  The placeholder of field i is the number
\* -i, a literal is its code point.
make_spec(k, name, sep) ==
    IF k = 0 THEN name
    ELSE name \o sep \o
         Join([i \in 1..k |-> << 0 - i >>], sep)

IsPlaceholder(x) == x < 0

\* str.format_map (custom_id.py complete): each placeholder replaced by the
\* string of its field.
RECURSIVE format_map(_, _)
format_map(spec, values) ==
    IF spec = << >> THEN << >>
    ELSE (IF IsPlaceholder(Head(spec)) THEN values[0 - Head(spec)]
          ELSE <<Head(spec)>>) \o format_map(Tail(spec), values)

\* "." of the pattern: any character but the line feed.
Dot(c) == c # NEWLINE[1]

\* regex.py:40-49 and custom_id.py:171-186  pattern.fullmatch, the pattern
\* being the spec with its literals escaped and each placeholder replaced
\* by the lazy group (?P<f>.*?): the group takes the shortest run of "."
\* characters after which the rest of the pattern matches the rest of the
\* string, and the end of the pattern must be the end of the string.
RECURSIVE MatchFrom(_, _, _)
MatchFrom(spec, s, groups) ==
    IF spec = << >>
    THEN IF s = << >> THEN [matched |-> TRUE, groups |-> groups] ELSE NoMatch
    ELSE IF IsPlaceholder(Head(spec))
    THEN LET fits == {i \in 0..Len(s) :
                        /\ \A j \in 1..i : Dot(s[j])
                        /\ MatchFrom(Tail(spec), SubSeq(s, i + 1, Len(s)),
                                     << >>).matched}
         IN IF fits = {} THEN NoMatch
            ELSE LET i == CHOOSE x \in fits : \A y \in fits : x <= y
                 IN MatchFrom(Tail(spec), SubSeq(s, i + 1, Len(s)),
                              Append(groups, SubSeq(s, 1, i)))
    ELSE IF s # << >> /\ Head(s) = Head(spec)
    THEN MatchFrom(Tail(spec), Tail(s), groups)
    ELSE NoMatch

\* custom_id.py:171-186  CustomID.match without strict.
match(spec, custom_id) == MatchFrom(spec, custom_id, << >>)

\* A CustomID is built and a string is chosen: either the spec is to be
\* formatted with field strings and the result matched, or an arbitrary
\* string is to be matched.
InitCustomID ==
    /\ InitRegistered
    /\ \E name \in SpecNames, sep \in Seps :
          \/ \E values \in FieldTuples :
                call = [fn |-> "complete", name |-> name, sep |-> sep,
                        k |-> Len(values), values |-> values,
                        custom_id |-> << >>, result |-> NoMatch,
                        done |-> FALSE]
          \/ \E k \in 0..MaxFields, custom_id \in MatchStrings :
                call = [fn |-> "match", name |-> name, sep |-> sep,
                        k |-> k, values |-> << >>,
                        custom_id |-> name \o custom_id, result |-> NoMatch,
                        done |-> FALSE]

\* The custom id of an instance is made (complete) and matched against the
\* spec it was made from.
CompleteAndMatch ==
    /\ call.fn = "complete"
    /\ ~call.done
    /\ LET spec == make_spec(call.k, call.name, call.sep)
           custom_id == format_map(spec, call.values)
       IN call' = [call EXCEPT !.custom_id = custom_id,
                               !.result = match(spec, custom_id),
                               !.done = TRUE]
    /\ UNCHANGED managerVars

\* A string is matched against the spec.
Match ==
    /\ call.fn = "match"
    /\ ~call.done
    /\ call' = [call EXCEPT
                  !.result = match(make_spec(call.k, call.name, call.sep),
                                   call.custom_id),
                  !.done = TRUE]
    /\ UNCHANGED managerVars

NextCustomID == CompleteAndMatch \/ Match

SpecCustomID == InitCustomID /\ [][NextCustomID]_vars

\* C12: formatting the spec of a CustomID with any field strings (empty
\* ones and ones that contain the separator included) and matching the
\* result gives exactly those strings as the groups, and match accepts no
\* string that formatting the spec cannot give.
SpecBijection ==
    /\ (call.fn = "complete" /\ call.done)
          => call.result = [matched |-> TRUE, groups |-> call.values]
    /\ (call.fn = "match" /\ call.done /\ call.result.matched)
          => /\ Len(call.result.groups) = call.k
             /\ format_map(make_spec(call.k, call.name, call.sep),
                           call.result.groups) = call.custom_id

(***************************************************************************)
(* Parsers (impl/parser/base.py, impl/parser/stdlib.py) and the component  *)
(* factory (impl/factory.py).                                              *)
(***************************************************************************)
\* The largest absolute value of the integers dumped and the largest number
\* of custom id fields of a component handed to the factory.
MaxInt == 16
MaxParams == 2

\* Values: an int, a bool (True is 1, False is 0), a str or None; v holds
\* the number or the characters.
IntValue(n) == [type |-> "int", v |-> <<n>>]
BoolValue(b) == [type |-> "bool", v |-> IF b THEN <<1>> ELSE <<0>>]
StrValue(str) == [type |-> "str", v |-> str]
None == [type |-> "NoneType", v |-> << >>]
\* The number of an int or a bool.
Number(value) == value.v[1]

\* What a call gave: a value returned or an exception raised; tried lists
\* the member parsers a union parser called.
Returned(value) ==
    [ok |-> TRUE, value |-> value, exc |-> "none", tried |-> << >>]
Raised(exc) ==
    [ok |-> FALSE, value |-> None, exc |-> exc, tried |-> << >>]

\* bool(value): "not argument" is its negation.
Truth(value) ==
    IF value.type = "str" THEN value.v # << >>
    ELSE IF value.type = "NoneType" THEN FALSE
    ELSE Number(value) # 0

\* str(n) for a natural number and for an integer.
RECURSIVE DecimalDigits(_)
DecimalDigits(n) ==
    IF n < 10 THEN <<48 + n>>
    ELSE DecimalDigits(n \div 10) \o <<48 + (n % 10)>>
IntStr(n) == IF n < 0 THEN <<45>> \o DecimalDigits(0 - n) ELSE DecimalDigits(n)

\* str(value): bool is printed as True or False.
Str(value) ==
    CASE value.type = "int" -> IntStr(Number(value))
      [] value.type = "bool" ->
            IF Number(value) = 1 THEN <<84, 114, 117, 101>>
            ELSE <<70, 97, 108, 115, 101>>
      [] value.type = "str" -> value.v
      [] OTHER -> <<78, 111, 110, 101>>

\* The value of a character as a digit: 0-9, a-z, A-Z; 99 for no digit.
DigitValue(c) ==
    IF c \in 48..57 THEN c - 48
    ELSE IF c \in 97..122 THEN c - 87
    ELSE IF c \in 65..90 THEN c - 55
    ELSE 99

RECURSIVE Horner(_, _, _)
Horner(digits, base, acc) ==
    IF digits = << >> THEN acc
    ELSE Horner(Tail(digits), base, acc * base + DigitValue(Head(digits)))

\* int(argument, base) for a string of an optional sign and characters
\* without white space, underscores and base prefix.
int(argument, base) ==
    LET signed == argument # << >> /\ Head(argument) \in {43, 45}
        digits == IF signed THEN Tail(argument) ELSE argument
        magnitude == Horner(digits, base, 0)
    IN  IF digits = << >>
           \/ \E i \in 1..Len(digits) : DigitValue(digits[i]) >= base
        THEN Raised("ValueError")
        ELSE Returned(IntValue(IF signed /\ Head(argument) = 45
                               THEN 0 - magnitude ELSE magnitude))

\* Parsers.  stdlib.py:49-84 NoneParser (strict), 203-233 IntParser,
\* 242-281 BoolParser, 286-290 StringParser.
IntParser(signed, base) == [kind |-> "int", signed |-> signed, base |-> base]
BoolParser == [kind |-> "bool", signed |-> TRUE, base |-> 10]
StringParser == [kind |-> "str", signed |-> TRUE, base |-> 10]
NoneParser == [kind |-> "none", signed |-> TRUE, base |-> 10]
\* None handed to UnionParser in place of a parser.
NoParser == [kind |-> "None", signed |-> TRUE, base |-> 10]

\* stdlib.py:238-239
DEFAULT_TRUES ==
    {<<116, 114, 117, 101>>, <<116>>, <<121, 101, 115>>, <<121>>, <<49>>}
DEFAULT_FALSES ==
    {<<102, 97, 108, 115, 101>>, <<102>>, <<110, 111>>, <<110>>, <<48>>}

\* stdlib.py:148-164  NumberParser.check_sign: TRUE when it raises.
check_sign(parser, value) == ~parser.signed /\ Number(value) < 0

\* parser.loads(interaction, argument) of a parser that is not a union.
MemberLoads(parser, argument) ==
    CASE parser.kind = "int" ->
            LET result == int(argument, parser.base) IN
            IF result.ok /\ check_sign(parser, result.value)
            THEN Raised("TypeError") ELSE result
      [] parser.kind = "bool" ->
            IF argument \in DEFAULT_TRUES THEN Returned(BoolValue(TRUE))
            ELSE IF argument \in DEFAULT_FALSES THEN Returned(BoolValue(FALSE))
            ELSE Raised("ValueError")
      [] parser.kind = "str" -> Returned(StrValue(argument))
      [] OTHER ->
            IF argument = << >> THEN Returned(None) ELSE Raised("ValueError")

\* parser.dumps(argument) of a parser that is not a union.
MemberDumps(parser, argument) ==
    CASE parser.kind = "int" -> Returned(StrValue(Str(argument)))
      [] parser.kind = "bool" ->
            Returned(StrValue(IF Truth(argument) THEN <<49>> ELSE <<48>>))
      [] parser.kind = "str" -> Returned(StrValue(Str(argument)))
      [] OTHER ->
            IF argument = None THEN Returned(StrValue(<< >>))
            ELSE Raised("ValueError")

\* isinstance(argument, parser.default_types()): bool is a subclass of int.
IsInstance(argument, parser) ==
    CASE parser.kind = "int" -> argument.type \in {"int", "bool"}
      [] parser.kind = "bool" -> argument.type = "bool"
      [] parser.kind = "str" -> argument.type = "str"
      [] OTHER -> argument.type = "NoneType"

\* stdlib.py:575-590  UnionParser.__init__.
UnionParser(inner_parsers) ==
    [kind |-> "union",
     inner_parsers |-> [i \in 1..Len(inner_parsers) |->
                           IF inner_parsers[i] = NoParser THEN NoneParser
                           ELSE inner_parsers[i]],
     optional |-> \E i \in 1..Len(inner_parsers) : inner_parsers[i] = NoParser]

\* A loop that keeps the result of the last member parser that succeeds.
RECURSIVE TryParsersKeepLast(_, _, _, _)
TryParsersKeepLast(inner_parsers, i, argument, tried) ==
    LET later == {j \in i..Len(inner_parsers) :
                     MemberLoads(inner_parsers[j], argument).ok}
    IN  IF later = {}
        THEN [Raised("RuntimeError") EXCEPT
                 !.tried = tried \o [j \in 1..(Len(inner_parsers) + 1 - i)
                                        |-> i + j - 1]]
        ELSE LET final == CHOOSE j \in later : \A k \in later : k <= j IN
             [MemberLoads(inner_parsers[final], argument) EXCEPT
                 !.tried = tried \o [j \in 1..(Len(inner_parsers) + 1 - i)
                                        |-> i + j - 1]]

\* stdlib.py:603-612  the loop of UnionParser.loads from member i on.
RECURSIVE TryParsers(_, _, _, _)
TryParsers(inner_parsers, i, argument, tried) ==
    IF i > Len(inner_parsers)
    THEN [Raised("RuntimeError") EXCEPT !.tried = tried]
    ELSE LET result == MemberLoads(inner_parsers[i], argument) IN
         IF result.ok THEN [result EXCEPT !.tried = Append(tried, i)]
         ELSE TryParsers(inner_parsers, i + 1, argument, Append(tried, i))

\* stdlib.py:592-612  UnionParser.loads.
UnionParserLoads(parser, argument) ==
    IF argument = << >> /\ parser.optional THEN Returned(None)
    ELSE TryParsers(parser.inner_parsers, 1, argument, << >>)

\* stdlib.py:614-626  UnionParser.dumps.
UnionParserDumps(parser, argument) ==
    IF ~Truth(argument) /\ parser.optional THEN Returned(StrValue(<< >>))
    ELSE LET fits == {i \in 1..Len(parser.inner_parsers) :
                        IsInstance(argument, parser.inner_parsers[i])}
         IN  IF fits = {} THEN Raised("RuntimeError")
             ELSE MemberDumps(
                     parser.inner_parsers[CHOOSE i \in fits :
                                             \A j \in fits : i <= j],
                     argument)

Loads(parser, argument) ==
    IF parser.kind = "union" THEN UnionParserLoads(parser, argument)
    ELSE MemberLoads(parser, argument)

Dumps(parser, argument) ==
    IF parser.kind = "union" THEN UnionParserDumps(parser, argument)
    ELSE MemberDumps(parser, argument)

\* Annotations: a plain type, or typing.Union of plain types (Optional[T]
\* is Union[T, None]).
Plain(type) == [origin |-> "", args |-> <<type>>]
Union(args) == [origin |-> "Union", args |-> args]
Optional(type) == Union(<<type, "NoneType">>)

\* base.py:83-97  the default parser of a plain type.
\* The TypeError of _get_parser_type for a type no parser is registered for.
NoParserAvailable == [kind |-> "TypeError", signed |-> TRUE, base |-> 10]

DefaultParser(type) ==
    CASE type = "int" -> IntParser(TRUE, 10)
      [] type = "bool" -> BoolParser
      [] type = "str" -> StringParser
      [] type = "NoneType" -> NoneParser
      [] OTHER -> NoParserAvailable

\* base.py:101-147  get_parser.
\* stdlib.py:443-449  TupleParser.__init__ and 515-529
\* CollectionParser.__init__ (collection_type list).
DEFAULT_ITEM_SEP == <<44>>
TupleParser(inner_parsers, sep) ==
    [kind |-> "tuple",
     inner_parsers |-> IF inner_parsers = << >> THEN <<StringParser>>
                       ELSE inner_parsers,
     sep |-> sep]
CollectionParser(inner_parser, sep) ==
    [kind |-> "collection", inner_parser |-> inner_parser, sep |-> sep]

\* A collection annotation such as List[item].
List(item) == [origin |-> "list", item |-> item]

\* The parser of a union or collection annotation, given the parsers of its
\* arguments: the TypeError of an argument leaves get_parser.
RECURSIVE get_parser(_)
get_parser(type_) ==
    IF type_.origin = "" THEN DefaultParser(type_.args[1])
    ELSE IF type_.origin = "list"
    THEN LET inner_parser == get_parser(type_.item) IN
         IF inner_parser = NoParserAvailable THEN NoParserAvailable
         ELSE CollectionParser(inner_parser, DEFAULT_ITEM_SEP)
    ELSE LET inner_parsers == [i \in 1..Len(type_.args) |->
                                  DefaultParser(type_.args[i])]
         IN  IF \E i \in 1..Len(inner_parsers) :
                    inner_parsers[i] = NoParserAvailable
             THEN NoParserAvailable
             ELSE UnionParser(inner_parsers)

\* factory.py:202-215  ComponentFactory.loads: the parsers of the fields in
\* their declared order, the field strings; failed lists the fields whose
\* failure the exception raised to the caller stands for.
RECURSIVE FactoryLoadsFrom(_, _, _, _)
FactoryLoadsFrom(parsers, params, i, kwargs) ==
    IF i > Len(params)
    THEN [ok |-> TRUE, kwargs |-> kwargs, exc |-> "none", failed |-> << >>]
    ELSE IF params[i] = << >>
    THEN FactoryLoadsFrom(parsers, params, i + 1, kwargs)
    ELSE LET result == Loads(parsers[i], params[i]) IN
         IF result.ok
         THEN FactoryLoadsFrom(parsers, params, i + 1,
                               Append(kwargs, <<i, result.value>>))
         ELSE [ok |-> FALSE, kwargs |-> << >>, exc |-> result.exc,
               failed |-> <<i>>]

FactoryLoads(parsers, params) == FactoryLoadsFrom(parsers, params, 1, << >>)

\* The universe of the parser calls.
PlainTypes == {"int", "bool", "str"}
Bases == {2, 10, 16}
Annotations ==
    {Plain(type) : type \in PlainTypes}
    \cup {Union(<<pair[1], pair[2]>>) :
            pair \in {q \in PlainTypes \X PlainTypes : q[1] # q[2]}}
    \cup {Optional(type) : type \in PlainTypes}
\* Parsers made by get_parser and parsers constructed directly.
Parsers ==
    {get_parser(type_) : type_ \in Annotations}
    \cup {IntParser(signed, base) : signed \in BOOLEAN, base \in Bases}
    \cup {UnionParser(<<DefaultParser(type), NoParser>>) : type \in PlainTypes}
\* Field strings handed to loads: "", "1", "0", "6", "-1", "10", "true",
\* "t", "f", "True", "v".
LoadStrings ==
    {<< >>, <<49>>, <<48>>, <<54>>, <<45, 49>>, <<49, 48>>,
     <<116, 114, 117, 101>>, <<116>>, <<102>>, <<84, 114, 117, 101>>, <<118>>}
\* Values handed to dumps.
Values ==
    {IntValue(n) : n \in (0 - MaxInt)..MaxInt}
    \cup {BoolValue(b) : b \in BOOLEAN}
    \cup {StrValue(str) : str \in {<< >>, <<118>>, <<49>>}}
    \cup {None}
\* The values of a parser's types: for IntParser the integers it accepts.
Accepted(parser) ==
    IF parser.kind = "union"
    THEN {v \in Values : \E i \in 1..Len(parser.inner_parsers) :
             v.type = CASE parser.inner_parsers[i].kind = "int" -> "int"
                        [] parser.inner_parsers[i].kind = "bool" -> "bool"
                        [] parser.inner_parsers[i].kind = "str" -> "str"
                        [] OTHER -> "NoneType"}
    ELSE IF parser.kind = "int"
    THEN {v \in Values : v.type = "int" /\ (parser.signed \/ Number(v) >= 0)}
    ELSE {v \in Values : IsInstance(v, parser)}

\* A parser and a string to load, a parser and a value to dump and load
\* again, or a factory and the field strings of a custom id.
InitParser ==
    /\ InitRegistered
    /\ \/ \E parser \in Parsers, argument \in LoadStrings :
             call = [fn |-> "loads", parser |-> parser, argument |-> argument,
                     done |-> FALSE]
       \/ \E parser \in Parsers : \E value \in Accepted(parser) :
             call = [fn |-> "dumps", parser |-> parser, argument |-> value,
                     done |-> FALSE]
       \/ \E k \in 1..MaxParams :
             \E types \in [1..k -> PlainTypes], params \in [1..k -> LoadStrings] :
                call = [fn |-> "factory", types |-> types, params |-> params,
                        parsers |-> [i \in 1..k |-> get_parser(Plain(types[i]))],
                        done |-> FALSE]

\* parser.loads(interaction, argument).
ParserLoads ==
    /\ call.fn = "loads"
    /\ ~call.done
    /\ call' = [fn |-> "loads", parser |-> call.parser,
                argument |-> call.argument, done |-> TRUE,
                result |-> Loads(call.parser, call.argument)]
    /\ UNCHANGED managerVars

\* parser.loads(interaction, parser.dumps(argument)).
ParserDumpsLoads ==
    /\ call.fn = "dumps"
    /\ ~call.done
    /\ LET dumped == Dumps(call.parser, call.argument) IN
       call' = [fn |-> "dumps", parser |-> call.parser,
                argument |-> call.argument, done |-> TRUE,
                dumped |-> dumped,
                result |-> IF dumped.ok THEN Loads(call.parser, dumped.value.v)
                           ELSE dumped]
    /\ UNCHANGED managerVars

\* factory.loads(interaction, params).
ComponentFactoryLoads ==
    /\ call.fn = "factory"
    /\ ~call.done
    /\ call' = [fn |-> "factory", types |-> call.types, params |-> call.params,
                parsers |-> call.parsers, done |-> TRUE,
                result |-> FactoryLoads(call.parsers, call.params)]
    /\ UNCHANGED managerVars

NextParser == ParserLoads \/ ParserDumpsLoads \/ ComponentFactoryLoads

SpecParser == InitParser /\ [][NextParser]_vars

\* The fields of a factory call whose string their parser rejects.
FailingFields ==
    {i \in 1..Len(call.params) :
        call.params[i] # << >> /\ ~Loads(call.parsers[i], call.params[i]).ok}

\* C16: ComponentFactory.loads parses the fields in declared order and
\* collects the failures: when it fails, the failure handed to the caller
\* stands for every field whose string was rejected and for no field that
\* parsed; ["abc", "not-a-number"] against (str, int) names the second only.
AggregatedFailure ==
    (call.fn = "factory" /\ call.done) =>
        /\ call.result.ok <=> FailingFields = {}
        /\ Range(call.result.failed) = FailingFields

\* C17: loads of a union parser tries the member parsers in declared order
\* and returns what the first one that succeeds returns: Union[int, bool]
\* loads "1" as the int 1 and "true" as True, Union[bool, int] loads "1" as
\* True; when no member succeeds it raises.
UnionFirstSuccess ==
    (call.fn = "loads" /\ call.done /\ call.parser.kind = "union"
       /\ ~(call.argument = << >> /\ call.parser.optional)) =>
        LET inner == call.parser.inner_parsers
            succeed == {i \in 1..Len(inner) :
                           MemberLoads(inner[i], call.argument).ok}
            first == CHOOSE i \in succeed : \A j \in succeed : i <= j
        IN  /\ IF succeed = {} THEN ~call.result.ok
               ELSE /\ call.result.ok
                    /\ call.result.value =
                          MemberLoads(inner[first], call.argument).value
                    /\ call.result.tried = [i \in 1..first |-> i]
            /\ (call.parser = get_parser(Union(<<"int", "bool">>))
                /\ call.argument = <<49>>)
                  => call.result.value = IntValue(1)
            /\ (call.parser = get_parser(Union(<<"int", "bool">>))
                /\ call.argument = <<116, 114, 117, 101>>)
                  => call.result.value = BoolValue(TRUE)
            /\ (call.parser = get_parser(Union(<<"bool", "int">>))
                /\ call.argument = <<49>>)
                  => call.result.value = BoolValue(TRUE)

\* C17 witness: the parser of Union[int, bool] has loaded "1" as the int 1,
\* having called its first member only.
UnionFirstSuccessWitness ==
    /\ call.fn = "loads" /\ call.done
    /\ call.parser = get_parser(Union(<<"int", "bool">>))
    /\ call.argument = <<49>>
    /\ call.result = [Returned(IntValue(1)) EXCEPT !.tried = <<1>>]

\* C18: the parser get_parser makes for Optional[T], for T any of int, bool
\* and str, loads the empty string as None and calls no member parser.
OptionalEmptyIsNone ==
    (call.fn = "loads" /\ call.done /\ call.argument = << >>
       /\ \E type \in PlainTypes : call.parser = get_parser(Optional(type))) =>
        /\ call.result.ok
        /\ call.result.value = None
        /\ call.result.tried = << >>

\* C19: for a union parser and a value of one of its member types,
\* loads(dumps(v)) = v; falsy values of an optional union and bools of a
\* union with an int member included.
UnionRoundTrip ==
    (call.fn = "dumps" /\ call.done /\ call.parser.kind = "union") =>
        /\ call.result.ok
        /\ call.result.value = call.argument

\* C20: for an IntParser of any base, signed or not, loads(dumps(n)) = n
\* for every integer n it accepts.
IntRoundTrip ==
    (call.fn = "dumps" /\ call.done /\ call.parser.kind = "int") =>
        /\ call.result.ok
        /\ call.result.value = call.argument

(***************************************************************************)
(* Collection and tuple parsers (impl/parser/stdlib.py).                   *)
(***************************************************************************)
\* The largest number of items of a collection and of members of a tuple.
MaxItems == 2

\* A list and a tuple of values.
ListValue(items) == [type |-> "list", items |-> items]
TupleValue(items) == [type |-> "tuple", items |-> items]

\* str.isspace on the characters used here: the space is the white space.
isspace(str) == str # << >> /\ \A i \in 1..Len(str) : str[i] = 32

\* The results of loading or dumping the parts one after the other: the
\* values, or the first exception.
AllOf(results) ==
    LET failed == {i \in 1..Len(results) : ~results[i].ok} IN
    IF failed = {}
    THEN [ok |-> TRUE, values |-> [i \in 1..Len(results) |-> results[i].value],
          exc |-> "none"]
    ELSE [ok |-> FALSE, values |-> << >>,
          exc |-> results[CHOOSE i \in failed : \A j \in failed : i <= j].exc]

\* The parts that are not white space, in order.
RECURSIVE SkipSpace(_)
SkipSpace(parts) ==
    IF parts = << >> THEN << >>
    ELSE IF isspace(Head(parts)) THEN SkipSpace(Tail(parts))
    ELSE <<Head(parts)>> \o SkipSpace(Tail(parts))

\* stdlib.py:531-541  CollectionParser.loads.
CollectionParserLoads(parser, argument) ==
    LET parts == SkipSpace(Split(argument, parser.sep))
        parsed == AllOf([i \in 1..Len(parts) |->
                            Loads(parser.inner_parser, parts[i])])
    IN  IF parsed.ok THEN Returned(ListValue(parsed.values))
        ELSE Raised(parsed.exc)

\* stdlib.py:543-552  CollectionParser.dumps.
CollectionParserDumps(parser, argument) ==
    LET dumped == AllOf([i \in 1..Len(argument.items) |->
                            Dumps(parser.inner_parser, argument.items[i])])
    IN  IF dumped.ok
        THEN Returned(StrValue(Join([i \in 1..Len(dumped.values) |->
                                        dumped.values[i].v],
                                    DEFAULT_ITEM_SEP)))
        ELSE Raised(dumped.exc)

\* A loads that pairs members and parts as zip does, without comparing
\* their numbers.
TupleParserLoadsZip(parser, argument) ==
    LET parts == Split(argument, parser.sep)
        n == IF Len(parts) < Len(parser.inner_parsers) THEN Len(parts)
             ELSE Len(parser.inner_parsers)
        parsed == AllOf([i \in 1..n |->
                            Loads(parser.inner_parsers[i], parts[i])])
    IN  IF parsed.ok THEN Returned(TupleValue(parsed.values))
        ELSE Raised(parsed.exc)

\* stdlib.py:451-469  TupleParser.loads.
TupleParserLoads(parser, argument) ==
    LET parts == Split(argument, parser.sep) IN
    IF Len(parts) # Len(parser.inner_parsers) THEN Raised("RuntimeError")
    ELSE LET parsed == AllOf([i \in 1..Len(parts) |->
                                 Loads(parser.inner_parsers[i], parts[i])])
         IN  IF parsed.ok THEN Returned(TupleValue(parsed.values))
             ELSE Raised(parsed.exc)

\* The universe of the collection calls: separators "," and "|", item
\* parsers for int and str, items, parts of a tuple string, annotations.
ItemSeps == {DEFAULT_ITEM_SEP, <<124>>}
ItemParsers == {IntParser(TRUE, 10), StringParser}
Items(parser) ==
    IF parser.kind = "int" THEN {IntValue(n) : n \in 0..2}
    ELSE {StrValue(str) : str \in {<<118>>, <<49>>, <<32>>}}
PartStrings == {<< >>, <<49>>, <<118>>}
CollectionAnnotations ==
    LET plain == {Plain(type) : type \in PlainTypes \cup {"complex"}} IN
    {List(item) : item \in plain} \cup {List(List(item)) : item \in plain}

\* A collection to dump and load again, a string to load as a tuple, or a
\* collection annotation to resolve a parser for.
InitCollection ==
    /\ InitRegistered
    /\ \/ \E inner_parser \in ItemParsers, sep \in ItemSeps, n \in 0..MaxItems :
             \E items \in [1..n -> Items(inner_parser)] :
                call = [fn |-> "collection",
                        parser |-> CollectionParser(inner_parser, sep),
                        argument |-> ListValue(items), done |-> FALSE]
       \/ \E sep \in ItemSeps, k \in 0..MaxItems, n \in 0..(MaxItems + 1) :
             \E inner_parsers \in [1..k -> ItemParsers],
                parts \in [1..n -> PartStrings] :
                call = [fn |-> "tuple", declared |-> k,
                        parser |-> TupleParser(inner_parsers, sep),
                        parts |-> parts, argument |-> Join(parts, sep),
                        done |-> FALSE]
       \/ \E type_ \in CollectionAnnotations :
             call = [fn |-> "get_parser", type_ |-> type_, done |-> FALSE]

\* parser.loads(interaction, parser.dumps(argument)) of a CollectionParser.
CollectionDumpsLoads ==
    /\ call.fn = "collection"
    /\ ~call.done
    /\ LET dumped == CollectionParserDumps(call.parser, call.argument) IN
       call' = [fn |-> "collection", parser |-> call.parser,
                argument |-> call.argument, done |-> TRUE, dumped |-> dumped,
                result |-> IF dumped.ok
                           THEN CollectionParserLoads(call.parser,
                                                      dumped.value.v)
                           ELSE dumped]
    /\ UNCHANGED managerVars

\* parser.loads(interaction, argument) of a TupleParser.
TupleLoads ==
    /\ call.fn = "tuple"
    /\ ~call.done
    /\ call' = [fn |-> "tuple", declared |-> call.declared,
                parser |-> call.parser, parts |-> call.parts,
                argument |-> call.argument, done |-> TRUE,
                result |-> TupleParserLoads(call.parser, call.argument)]
    /\ UNCHANGED managerVars

\* get_parser(type_).
GetParser ==
    /\ call.fn = "get_parser"
    /\ ~call.done
    /\ call' = [fn |-> "get_parser", type_ |-> call.type_, done |-> TRUE,
                result |-> get_parser(call.type_)]
    /\ UNCHANGED managerVars

NextCollection == CollectionDumpsLoads \/ TupleLoads \/ GetParser

SpecCollection == InitCollection /\ [][NextCollection]_vars

\* C21: a CollectionParser with separator S joins with S and splits on S,
\* so that loads(dumps(c)) = c for every collection c of legal items, the
\* empty collection included, for every S.
CollectionRoundTrip ==
    (call.fn = "collection" /\ call.done) =>
        /\ call.dumped.ok
        /\ call.dumped.value.v =
              Join([i \in 1..Len(call.argument.items) |->
                       Dumps(call.parser.inner_parser,
                             call.argument.items[i]).value.v],
                   call.parser.sep)
        /\ call.result.ok
        /\ call.result.value = call.argument

\* The number of separator-delimited parts of the string of a tuple call:
\* the string was joined from parts that do not contain the separator.
PartCount == IF call.parts = << >> THEN 1 ELSE Len(call.parts)

\* C22: TupleParser.loads raises whenever the number of separator-delimited
\* parts differs from the number of member parsers, for too few and for too
\* many parts; what it returns has one item per member and per part.
TupleArityChecked ==
    (call.fn = "tuple" /\ call.done) =>
        /\ PartCount # Len(call.parser.inner_parsers) =>
              /\ ~call.result.ok
              /\ call.result.exc = "RuntimeError"
        /\ call.result.ok =>
              /\ Len(call.result.value.items) = Len(call.parser.inner_parsers)
              /\ Len(call.result.value.items) = PartCount

\* C22 witness: a parser of two members has raised on a string of three
\* parts, and the first two parts alone would have loaded.
TupleArityWitness ==
    /\ call.fn = "tuple" /\ call.done
    /\ Len(call.parser.inner_parsers) = 2
    /\ Len(call.parts) = 3
    /\ \A i \in 1..2 : Loads(call.parser.inner_parsers[i], call.parts[i]).ok
    /\ call.result = Raised("RuntimeError")

\* C23: get_parser for a collection whose item type is itself a collection
\* (List[List[int]]) raises a configuration error instead of returning a
\* parser.
NestedCollectionRejected ==
    (call.fn = "get_parser" /\ call.done /\ call.type_.item.origin = "list") =>
        call.result.kind = "TypeError"

(***************************************************************************)
(* The managers and the bot: add_to_bot, remove_from_bot and the events    *)
(* the bot delivers to the listeners.                                      *)
(***************************************************************************)
\* Number of add_to_bot and remove_from_bot calls in one run.
MaxBotCalls == 4

\* self.invoke in bot.extra_events.get(event, [])
Listens(events, event, n) == \E i \in DOMAIN events[event] : events[event][i] = n

\* bot.add_listener(self.invoke, event): the listener is appended to the
\* event's list.
add_listener(events, n, event) ==
    [events EXCEPT ![event] = Append(events[event], n)]

\* bot.remove_listener(self.invoke, event): list.remove takes out the first
\* occurrence; a listener that is not there is ignored.
remove_listener(events, n, event) ==
    IF ~Listens(events, event, n) THEN events
    ELSE LET l == events[event]
             first == CHOOSE i \in DOMAIN l :
                          l[i] = n /\ \A j \in 1..(i - 1) : l[j] # n
         IN  [events EXCEPT ![event] =
                 SubSeq(l, 1, first - 1) \o SubSeq(l, first + 1, Len(l))]

\* An add_to_bot that does not look for its listeners before it adds them.
add_to_bot_unguarded(events, n) ==
    [error |-> "none",
     extra_events |-> add_listener(add_listener(events, n, COMPONENT_EVENT),
                                   n, MODAL_EVENT)]
\* manager.add_to_bot(bot) on manager n: the exception raised and
\* bot.extra_events afterwards.
add_to_bot(events, n) ==
    IF Listens(events, COMPONENT_EVENT, n) \/ Listens(events, MODAL_EVENT, n)
    THEN [error |-> "RuntimeError", extra_events |-> events]
    ELSE [error |-> "none",
          extra_events |-> add_listener(add_listener(events, n, COMPONENT_EVENT),
                                        n, MODAL_EVENT)]

\* manager.remove_from_bot(bot) on manager n.
remove_from_bot(events, n) ==
    IF ~(Listens(events, COMPONENT_EVENT, n) /\ Listens(events, MODAL_EVENT, n))
    THEN [error |-> "RuntimeError", extra_events |-> events]
    ELSE [error |-> "none",
          extra_events |-> remove_listener(
                               remove_listener(events, n, COMPONENT_EVENT),
                               n, MODAL_EVENT)]

BotFrame ==
    UNCHANGED <<call, store, children, registryVars, configVars, hookVars,
                moduleVars, counter, issued, last, calls, setups, inv, trace>>

AddToBot(n) ==
    LET r == add_to_bot(extra_events, n) IN
    /\ Idle
    /\ n \in store
    /\ Len(bot_calls) < MaxBotCalls
    /\ extra_events' = r.extra_events
    /\ bot_calls' = Append(bot_calls, [op |-> "add_to_bot", at |-> n,
                                       error |-> r.error])
    /\ BotFrame

RemoveFromBot(n) ==
    LET r == remove_from_bot(extra_events, n) IN
    /\ Idle
    /\ n \in store
    /\ Len(bot_calls) < MaxBotCalls
    /\ extra_events' = r.extra_events
    /\ bot_calls' = Append(bot_calls, [op |-> "remove_from_bot", at |-> n,
                                       error |-> r.error])
    /\ BotFrame

\* ComponentManager.parse_interaction on manager n, given the registry maps
\* the listeners called before it left behind.
ParseInteractionOn(comps, md, n, custom_id, build) ==
    LET identifier == get_identifier(n, custom_id).name
        same == [component |-> NoType, error |-> "none",
                 components |-> comps, module_data |-> md]
    IN  IF identifier \notin DOMAIN comps[n]
        THEN same
        ELSE LET component_type == comps[n][identifier]
             IN  IF ~is_active(md[n][identifier], sys_modules)
                 THEN LET d == DeregisterResult(comps, md, type_manager, n,
                                                component_type)
                      IN  [component |-> NoType, error |-> d.error,
                           components |-> d.components,
                           module_data |-> d.module_data]
                 ELSE IF build = "raises"
                 THEN [same EXCEPT !.error = "ConversionError"]
                 ELSE [same EXCEPT !.component = component_type]

\* The bot delivers one interaction to listeners[i..]: every listener's
\* invoke runs to its end, whatever the listeners before it did or raised.
RECURSIVE DispatchTo(_, _, _, _, _, _)
DispatchTo(listeners, i, st, custom_id, build, raises) ==
    IF i > Len(listeners) THEN st
    ELSE LET n == listeners[i]
             p == ParseInteractionOn(st.components, st.module_data, n,
                                     custom_id, build)
             r == RunInvoke(StartStep(p), <<>>, raises)
         IN  DispatchTo(listeners, i + 1,
                        [components |-> p.components,
                         module_data |-> p.module_data,
                         store |-> StoreAfterWalk(st.store, n),
                         children |-> ChildrenAfterWalk(st.store, st.children, n),
                         inv |-> r.inv,
                         trace |-> st.trace \o r.trace],
                        custom_id, build, raises)

\* bot.dispatch("message_interaction", interaction) for an interaction with
\* this custom id: the bot calls every listener of the event.
BotDispatch(custom_id, build, raises) ==
    LET listeners == extra_events[COMPONENT_EVENT]
        r == DispatchTo(listeners, 1,
                        [components |-> components, module_data |-> module_data,
                         store |-> store, children |-> children,
                         inv |-> IdleInvocation, trace |-> <<>>],
                        custom_id, build, raises)
    IN
    /\ Idle
    /\ listeners # <<>>
    /\ components' = r.components
    /\ module_data' = r.module_data
    /\ store' = r.store
    /\ children' = r.children
    /\ inv' = r.inv
    /\ trace' = r.trace
    /\ last' = [op |-> "invoke",
                error |-> IF r.inv.outcome = "raised" THEN r.inv.exc.src
                          ELSE "none"]
    /\ UNCHANGED <<call, botVars, calls>>
    /\ InvokeFrame

InitBot == call = NoCall /\ InitRegistered

NextBot ==
    \/ \E n \in Names : AddToBot(n)
    \/ \E n \in Names : RemoveFromBot(n)
    \/ \E custom_id \in {A1CustomId, <<90>>}, build \in BuildOutcomes,
          raises \in BOOLEAN : BotDispatch(custom_id, build, raises)
    \/ InvokeReturn

SpecBot == InitBot /\ [][NextBot]_vars

\* Manager n's invoke listens to both events of the bot.
Added(events, n) ==
    Listens(events, COMPONENT_EVENT, n) /\ Listens(events, MODAL_EVENT, n)
\* Manager n's invoke listens to one of the events at least.
Listening(events, n) ==
    Listens(events, COMPONENT_EVENT, n) \/ Listens(events, MODAL_EVENT, n)

\* C24: add_to_bot on a manager that is already added to the bot raises and
\* leaves the bot's listeners unchanged; remove_from_bot on a manager that
\* is not added raises; a remove_from_bot on an added manager leaves its
\* invoke subscribed to neither event, and add_to_bot on a manager that is
\* not added (such as one added and removed before) succeeds and subscribes
\* it to both.
AddRemoveGuarded ==
    [][bot_calls' # bot_calls =>
        LET c == bot_calls'[Len(bot_calls')] IN
        /\ (c.op = "add_to_bot" /\ Added(extra_events, c.at)) =>
              (c.error = "RuntimeError" /\ extra_events' = extra_events)
        /\ (c.op = "remove_from_bot" /\ ~Added(extra_events, c.at)) =>
              c.error = "RuntimeError"
        /\ (c.op = "remove_from_bot" /\ Added(extra_events, c.at)) =>
              (c.error = "none" /\ ~Listening(extra_events', c.at))
        /\ (c.op = "add_to_bot" /\ ~Added(extra_events, c.at)) =>
              (c.error = "none" /\ Added(extra_events', c.at))]_vars

\* A manager was added, added again in vain, removed and added once more.
AddRemoveWitness ==
    \E n \in Names :
        /\ Len(bot_calls) = 4
        /\ bot_calls[1] = [op |-> "add_to_bot", at |-> n, error |-> "none"]
        /\ bot_calls[2] = [op |-> "add_to_bot", at |-> n,
                           error |-> "RuntimeError"]
        /\ bot_calls[3] = [op |-> "remove_from_bot", at |-> n,
                           error |-> "none"]
        /\ bot_calls[4] = [op |-> "add_to_bot", at |-> n, error |-> "none"]
        /\ Added(extra_events, n)

\* The callbacks the listeners of the last event delivered have run.
CallbacksRun == {i \in DOMAIN trace : trace[i].ev = "callback"}

\* C30: for one interaction the bot delivers, the callback of the matched
\* component is invoked at most once, however many managers of the chain
\* were added to the bot.
CallbackAtMostOnce == Cardinality(CallbacksRun) <= 1

\* C25: get_manager keeps one manager per name, and every manager but the
\* root is a member of the children set of its parent: the manager named by
\* its name without the last dotted segment, the root when the name has no
\* dot.
ChildOfParent ==
    \A m \in store \ {ROOT} :
        /\ Parent(m) = IF Len(m) = 1 THEN ROOT ELSE Prefix(m)
        /\ m \in children[Parent(m)]

\* C28: deregister(T) removes only the mappings whose value is T: a
\* different live type the root maps under some identifier before the call
\* (such as the reloaded replacement of T) is still mapped there afterwards.
DeregisterKeepsOthers ==
    [][\A n \in Names, t \in Types :
          Deregister(n, t) =>
              \A i \in DOMAIN components[ROOT] :
                  LET u == components[ROOT][i] IN
                  (u # t /\ Alive(u) /\ TypeIsActive(u, sys_modules)) =>
                      /\ i \in DOMAIN components'[ROOT]
                      /\ components'[ROOT][i] = u]_vars

(***************************************************************************)
(* Registrations and make_custom_id: class A of m1 is registered, m2 may   *)
(* be imported, classes are registered with or without an explicit         *)
(* identifier and custom ids are made for their instances.                 *)
(***************************************************************************)
NextIdentifiers ==
    \/ \E m \in Modules : LoadModule(m)
    \/ \E n \in Names, t \in Types, identifier \in ExplicitIdents \cup {NoIdent} :
          Register(n, t, identifier)
    \/ \E n \in Names, t \in Types, fields \in PlainFieldLists :
          MakeCustomId(n, t, fields)

SpecIdentifiers == InitDispatch /\ [][NextIdentifiers]_vars

\* C29: the identifier in the custom id make_custom_id makes for an instance
\* of a class is the identifier under which the manager maps that class
\* (the class being mapped under that identifier only), whatever
\* registrations came before (explicit identifiers, another class of the
\* same name under another identifier).
TokenIdentifierRegistered ==
    [][\A n \in Names, t \in Types, fields \in PlainFieldLists :
          (MakeCustomId(n, t, fields) /\ last'.error = "none") =>
              \A i \in DOMAIN components[n] :
                  (\A j \in DOMAIN components[n] :
                       components[n][j] = t <=> j = i) =>
                      issued'[Len(issued')].identifier = i]_vars

(***************************************************************************)
(* The listener package (disnake_ext_components): ParamInfo.convert,       *)
(* BaseListener.parse_custom_id and ButtonListener.__call__.               *)
(***************************************************************************)
\* Number of parameters of a listener after the interaction.
MaxListenerParams == 2

\* inspect.Parameter.empty
Empty == [type |-> "empty", v |-> << >>]

\* An inspect.Parameter: types lists the annotated types in annotation
\* order (one type, or the members of a Union without None), none tells
\* whether None is a member of the Union, default is the declared default.
Parameter(types, none, default) ==
    [types |-> types, none |-> none, default |-> default]

\* ParamInfo.from_param(param, validate): one converter per annotated type
\* (CONVERTER_MAP), one pattern per converter when validate is set
\* (REGEX_MAP; a pattern is named by its type), and _parse_union's default
\* of None for a union with None that declares no default.
from_param(param, validate) ==
    [converters_to |-> param.types,
     regex |-> IF validate THEN param.types ELSE << >>,
     default |-> IF param.none /\ param.default = Empty THEN None
                 ELSE param.default]

\* ParamInfo.optional
optional(info) == info.default # Empty

\* str.lower() on ASCII letters.
lower(str) ==
    [i \in 1..Len(str) |-> IF str[i] \in 65..90 THEN str[i] + 32 ELSE str[i]]

\* commands.converter._convert_to_bool: the accepted spellings.
BOOL_TRUES ==
    {<<121, 101, 115>>, <<121>>, <<116, 114, 117, 101>>, <<116>>, <<49>>,
     <<101, 110, 97, 98, 108, 101>>, <<111, 110>>}
BOOL_FALSES ==
    {<<110, 111>>, <<110>>, <<102, 97, 108, 115, 101>>, <<102>>, <<48>>,
     <<100, 105, 115, 97, 98, 108, 101>>, <<111, 102, 102>>}

\* regex.fullmatch(argument) for the patterns STR, INT and BOOL of
\* patterns.py.
fullmatch(pattern, argument) ==
    CASE pattern = "str" -> TRUE
      [] pattern = "int" ->
            LET digits == IF argument # << >> /\ Head(argument) \in {43, 45}
                          THEN Tail(argument) ELSE argument
            IN  /\ digits # << >>
                /\ \A i \in 1..Len(digits) : digits[i] \in 48..57
      [] pattern = "bool" -> lower(argument) \in BOOL_TRUES \cup BOOL_FALSES

\* CONVERTER_MAP[type][0](argument): str, int and _convert_to_bool, whose
\* BadBoolArgument is a commands.BadArgument and no ValueError.
ConverterTo(conv, argument) ==
    CASE conv = "str" -> Returned(StrValue(argument))
      [] conv = "int" -> int(argument, 10)
      [] conv = "bool" ->
            IF lower(argument) \in BOOL_TRUES THEN Returned(BoolValue(TRUE))
            ELSE IF lower(argument) \in BOOL_FALSES
            THEN Returned(BoolValue(FALSE))
            ELSE Raised("BadBoolArgument")

\* ParamInfo._convert_raw (info.regex is empty) and
\* ParamInfo._convert_and_validate from converter i on: the value and the
\* errors returned, or the exception that is no ValueError and escapes.  A
\* pattern is matched before its converter is called; the patterns of a
\* ParamInfo built by from_param differ, so that none is found in
\* match_cache.
RECURSIVE ConvertLoop(_, _, _, _)
ConvertLoop(info, argument, i, errors) ==
    IF i > Len(info.converters_to)
    THEN [value |-> info.default, errors |-> errors, exc |-> "none"]
    ELSE LET conv == info.converters_to[i]
             r == ConverterTo(conv, argument)
         IN  IF info.regex # << >> /\ ~fullmatch(info.regex[i], argument)
             THEN ConvertLoop(info, argument, i + 1,
                              Append(errors, "MatchFailure"))
             ELSE IF r.ok
             THEN [value |-> r.value, errors |-> << >>, exc |-> "none"]
             ELSE IF r.exc = "ValueError"
             THEN ConvertLoop(info, argument, i + 1, Append(errors, r.exc))
             ELSE [value |-> None, errors |-> errors, exc |-> r.exc]

\* await ParamInfo.convert(argument) for a str argument and a parameter
\* that is no collection.
convert(info, argument) ==
    LET c == ConvertLoop(info, argument, 1, << >>) IN
    IF c.exc # "none" THEN Raised(c.exc)
    ELSE IF c.errors = << >> \/ optional(info) THEN Returned(c.value)
    ELSE Raised("ConversionError")

\* A listener that compares the name only and takes any number of
\* parameters.
parse_custom_id_name_only(listener, custom_id) ==
    LET parts == Split(custom_id, listener.sep) IN
    IF listener.name # << >> /\ Head(parts) # listener.name
    THEN [ok |-> FALSE, params |-> << >>]
    ELSE [ok |-> TRUE, params |-> Tail(parts)]
\* BaseListener.parse_custom_id of a listener without regex: the raw
\* parameter values, or not ok when it raises ValueError.  A listener
\* without a name (None) skips the comparison of the names.
parse_custom_id(listener, custom_id) ==
    LET parts == Split(custom_id, listener.sep) IN
    IF (listener.name # << >> /\ Head(parts) # listener.name)
       \/ Len(Tail(parts)) # Len(listener.params)
    THEN [ok |-> FALSE, params |-> << >>]
    ELSE [ok |-> TRUE, params |-> Tail(parts)]

\* What the callback of a listener returns.
Called == [type |-> "called", v |-> << >>]

\* The loop over zip(self.params, custom_id_params) of __call__ from
\* parameter i on, then the callback; tried lists what ran.
RECURSIVE ConvertParams(_, _, _, _)
ConvertParams(listener, args, i, tried) ==
    IF i > Len(listener.params) \/ i > Len(args)
    THEN [Returned(Called) EXCEPT !.tried = Append(tried, "callback")]
    ELSE LET r == convert(listener.params[i], args[i]) IN
         IF r.ok
         THEN ConvertParams(listener, args, i + 1, Append(tried, "convert"))
         ELSE [Raised(r.exc) EXCEPT !.tried = Append(tried, "convert")]

\* await listener(inter) for a ButtonListener called by the event (no
\* manual arguments) with an interaction that carries this custom id.
ListenerCall(listener, custom_id) ==
    LET parsed == parse_custom_id(listener, custom_id) IN
    IF ~parsed.ok THEN Returned(None)
    ELSE IF ~listener.checks_pass
    THEN [Returned(None) EXCEPT !.tried = <<"checks">>]
    ELSE ConvertParams(listener, parsed.params, 1, <<"checks">>)

\* The annotated types, the parameters and the arguments tried.
ConverterTypes == {"str", "int", "bool"}
Parameters ==
    {Parameter(types, none, default) :
        types \in {<<a>> : a \in ConverterTypes}
                  \cup {<<x[1], x[2]>> :
                           x \in {y \in ConverterTypes \X ConverterTypes :
                                     y[1] # y[2]}},
        none \in BOOLEAN,
        default \in {Empty, IntValue(3)}}
\* "", "1", "12", "t", "T", "x"
ConvertStrings == {<< >>, <<49>>, <<49, 50>>, <<116>>, <<84>>, <<120>>}

\* The parameters of the listeners: x: int, x: Optional[int], x: str and
\* x: bool, as the listener builds them.
ListenerParams ==
    {from_param(Parameter(<<"int">>, FALSE, Empty), TRUE),
     from_param(Parameter(<<"int">>, TRUE, Empty), TRUE),
     from_param(Parameter(<<"str">>, FALSE, Empty), TRUE),
     from_param(Parameter(<<"bool">>, FALSE, Empty), TRUE)}
\* Listeners named "L" or without a name, separator ":", whose checks all
\* pass or not.
Listeners ==
    [name : {<< >>, <<76>>}, sep : {<<58>>},
     params : UNION {[1..n -> ListenerParams] : n \in 0..MaxListenerParams},
     checks_pass : BOOLEAN]
\* Custom ids: a name "L" or "M" and up to MaxListenerParams + 1 raw
\* parameter values "1" or "x".
ListenerCustomIds ==
    {Join(<<name>> \o fields, <<58>>) :
        name \in {<<76>>, <<77>>},
        fields \in UNION {[1..n -> {<<49>>, <<120>>}] :
                             n \in 0..(MaxListenerParams + 1)}}

InitListener ==
    /\ InitRegistered
    /\ \/ call \in [fn : {"convert"},
                    info : {from_param(param, validate) :
                               param \in Parameters, validate \in BOOLEAN},
                    argument : ConvertStrings, done : {FALSE},
                    result : {Raised("none")}]
       \/ call \in [fn : {"listener"}, listener : Listeners,
                    custom_id : ListenerCustomIds, done : {FALSE},
                    result : {Raised("none")}]

Convert ==
    /\ call.fn = "convert"
    /\ ~call.done
    /\ call' = [call EXCEPT !.done = TRUE,
                            !.result = convert(call.info, call.argument)]
    /\ UNCHANGED managerVars

CallListener ==
    /\ call.fn = "listener"
    /\ ~call.done
    /\ call' = [call EXCEPT !.done = TRUE,
                            !.result = ListenerCall(call.listener,
                                                    call.custom_id)]
    /\ UNCHANGED managerVars

NextListener == Convert \/ CallListener

SpecListener == InitListener /\ [][NextListener]_vars

\* The custom id names another listener or carries another number of
\* parameters than the listener takes.
Mismatch(listener, custom_id) ==
    LET parts == Split(custom_id, listener.sep) IN
    \/ listener.name # << >> /\ Head(parts) # listener.name
    \/ Len(parts) - 1 # Len(listener.params)

\* One of the raw parameter values cannot be converted by its parameter.
Unconvertible(listener, custom_id) ==
    LET parts == Split(custom_id, listener.sep) IN
    \E i \in 1..Len(listener.params) :
        i + 1 <= Len(parts) /\ ~convert(listener.params[i], parts[i + 1]).ok

Passing(info, argument) ==
    {i \in 1..Len(info.converters_to) :
        ConverterTo(info.converters_to[i], argument).ok}

\* C27: ParamInfo.convert on a single string returns the result of the
\* first converter in annotation order that succeeds; when all fail it
\* returns the default of an optional parameter (None for an Optional
\* without default) and raises ConversionError for a required one.
ConvertFirstSuccess ==
    (call.fn = "convert" /\ call.done) =>
        LET passing == Passing(call.info, call.argument)
            first == CHOOSE i \in passing : \A j \in passing : i <= j
        IN  IF passing # {}
            THEN call.result =
                     ConverterTo(call.info.converters_to[first], call.argument)
            ELSE IF optional(call.info)
            THEN call.result = Returned(call.info.default)
            ELSE call.result.exc = "ConversionError"

====
